---- MODULE Spec2Model ----
\* A model of the Milestone Madness Slack bot: the language-model gateway
\* (utils/ai.js), the database gateway (utils/database.js), the reminder
\* scheduler and the /convo and /audit command handlers.
\*
\* Texts are sequences of characters; a character is a one-character string.
\* Each subsystem keeps its state in one record variable and has its own
\* specification, so that a property of one subsystem is checked without the
\* interleavings of the others.
EXTENDS Integers, Sequences, FiniteSets, TLC

VARIABLES md, ai, db, rem, cv, au, ctl, dm, ep

vars == <<md, ai, db, rem, cv, au, ctl, dm, ep>>

\* ---------------------------------------------------------------- bounds

\* Longest text handed to cleanupMarkdown.
MaxTextLen == 5

\* Longest prompt handed to getAIResponse.
MaxPromptLen == 6

\* Longest completion the language model returns (in characters; the
\* streaming request delivers it one character per chunk).
MaxReplyLen == 2

\* Depth of nested DatabaseManager.query calls at which the call stack is
\* exhausted (thousands of frames in the program).
StackLimit == 3

\* Operations of the database gateway started in one behaviour.
MaxOps == 3

\* The seconds that pass in a run of the reminder modules.
MaxRemTicks == 2

\* Clock advances in one behaviour of the database gateway.
MaxTicks == 3
MaxLimitLen == 3
MaxWorkers == 3
MaxRemOps == 2
MaxReplyTokens == 3

\* ------------------------------------------------------------ characters

NL == "\n"
SP == " "
TAB == "\t"

\* The characters JavaScript's \s and String.prototype.trim treat as blank.
Whitespace == {SP, NL, TAB}

SeqsUpTo(S, n) == UNION {[1..k -> S] : k \in 0..n}

Min(S) == CHOOSE x \in S : \A y \in S : x <= y

Max(S) == CHOOSE x \in S : \A y \in S : x >= y

\* Number of characters of s, from position i on, that belong to the set C
\* before the first one that does not (a greedy character-class run).
RECURSIVE RunLen(_, _, _)
RunLen(s, i, C) ==
  IF i > Len(s) \/ s[i] \notin C THEN 0 ELSE 1 + RunLen(s, i + 1, C)

\* String.prototype.trim
Trim(s) ==
  LET lead == RunLen(s, 1, Whitespace)
      keep == {j \in 1..Len(s) : s[j] \notin Whitespace}
  IN IF keep = {} THEN <<>> ELSE SubSeq(s, lead + 1, Max(keep))

\* pat occurs in s at position i
StartsWithAt(s, i, pat) ==
  /\ i + Len(pat) - 1 <= Len(s)
  /\ SubSeq(s, i, i + Len(pat) - 1) = pat

\* s.replace(/pat/g, rep) for a literal pattern pat
RECURSIVE ReplaceLiteral(_, _, _, _)
ReplaceLiteral(s, i, pat, rep) ==
  IF i > Len(s) THEN <<>>
  ELSE IF StartsWithAt(s, i, pat)
       THEN rep \o ReplaceLiteral(s, i + Len(pat), pat, rep)
       ELSE <<s[i]>> \o ReplaceLiteral(s, i + 1, pat, rep)

\* ^ under the m flag: the start of the text or the position after a newline
IsLineStart(s, i) == i = 1 \/ s[i - 1] = NL

\* ---------------------------------------------- utils/ai.js cleanupMarkdown

\* text.split('\n').length > text.length / 2, then text.replace(/\n/g, '')
JoinVertical(s) ==
  LET pieces == Cardinality({j \in 1..Len(s) : s[j] = NL}) + 1
  IN IF 2 * pieces > Len(s) THEN SelectSeq(s, LAMBDA c : c # NL) ELSE s

ParagraphMarker == <<"|", "|", "P", "A", "R", "A", "G", "R", "A", "P", "H", "|", "|">>

\* text.replace(/\n{3,}/g, '\n\n')
RECURSIVE CollapseNewlines(_, _)
CollapseNewlines(s, i) ==
  IF i > Len(s) THEN <<>>
  ELSE LET r == RunLen(s, i, {NL})
       IN IF r >= 3 THEN <<NL, NL>> \o CollapseNewlines(s, i + r)
          ELSE <<s[i]>> \o CollapseNewlines(s, i + 1)

\* text.replace(/\n\s*\n/g, '\n\n'): a newline, the longest blank run after
\* it, given back up to the last newline of that run
RECURSIVE StandardizeBreaks(_, _)
StandardizeBreaks(s, i) ==
  IF i > Len(s) THEN <<>>
  ELSE LET w == RunLen(s, i + 1, Whitespace)
           ends == {j \in (i + 1)..(i + w) : s[j] = NL}
       IN IF s[i] = NL /\ ends # {}
          THEN <<NL, NL>> \o StandardizeBreaks(s, Max(ends) + 1)
          ELSE <<s[i]>> \o StandardizeBreaks(s, i + 1)

\* text.replace(/\*\*(.*?)\*\*/g, '$1'): the lazy group stops at the first
\* closing pair on the same line
RECURSIVE StripBold(_, _)
StripBold(s, i) ==
  IF i > Len(s) THEN <<>>
  ELSE LET closers == {j \in (i + 2)..(Len(s) - 1) :
                         /\ s[j] = "*" /\ s[j + 1] = "*"
                         /\ \A k \in (i + 2)..(j - 1) : s[k] # NL}
       IN IF StartsWithAt(s, i, <<"*", "*">>) /\ closers # {}
          THEN SubSeq(s, i + 2, Min(closers) - 1) \o StripBold(s, Min(closers) + 2)
          ELSE <<s[i]>> \o StripBold(s, i + 1)

\* text.replace(/\*(.*?)\*/g, '$1')
RECURSIVE StripItalic(_, _)
StripItalic(s, i) ==
  IF i > Len(s) THEN <<>>
  ELSE LET closers == {j \in (i + 1)..Len(s) :
                         /\ s[j] = "*"
                         /\ \A k \in (i + 1)..(j - 1) : s[k] # NL}
       IN IF s[i] = "*" /\ closers # {}
          THEN SubSeq(s, i + 1, Min(closers) - 1) \o StripItalic(s, Min(closers) + 1)
          ELSE <<s[i]>> \o StripItalic(s, i + 1)

\* text.replace(/---+/g, '')
RECURSIVE StripRules(_, _)
StripRules(s, i) ==
  IF i > Len(s) THEN <<>>
  ELSE LET r == RunLen(s, i, {"-"})
       IN IF r >= 3 THEN StripRules(s, i + r)
          ELSE <<s[i]>> \o StripRules(s, i + 1)

\* Last position of the line that position i is on (i - 1 for an empty rest).
LineEnd(s, i) == i + RunLen(s, i, {s[j] : j \in 1..Len(s)} \ {NL}) - 1

\* text.replace(/^#+\s+(.*)$/gm, '$1'): at a line start, the hashes and the
\* blank run after them (which may cross newlines) are dropped and the rest
\* of the line is kept; the scan resumes after that line
RECURSIVE StripHeaders(_, _)
StripHeaders(s, i) ==
  IF i > Len(s) THEN <<>>
  ELSE LET h == RunLen(s, i, {"#"})
           w == RunLen(s, i + h, Whitespace)
           e == LineEnd(s, i + h + w)
       IN IF IsLineStart(s, i) /\ h >= 1 /\ w >= 1
          THEN SubSeq(s, i + h + w, e) \o StripHeaders(s, e + 1)
          ELSE <<s[i]>> \o StripHeaders(s, i + 1)

\* The replacement text of the bullet rule, as the source file spells it.
Bullet == <<"a-circumflex", "euro", "cent", SP>>

\* text.replace(/^\s*-\s+/gm, Bullet)
RECURSIVE ReplaceBullets(_, _)
ReplaceBullets(s, i) ==
  IF i > Len(s) THEN <<>>
  ELSE LET w1 == RunLen(s, i, Whitespace)
           d == i + w1
           w2 == RunLen(s, d + 1, Whitespace)
       IN IF IsLineStart(s, i) /\ d <= Len(s) /\ s[d] = "-" /\ w2 >= 1
          THEN Bullet \o ReplaceBullets(s, d + 1 + w2)
          ELSE <<s[i]>> \o ReplaceBullets(s, i + 1)

\* text.replace(/^\s*\d+\.\s+/gm, match => match): every match is replaced
\* by itself
KeepNumberedLists(s) == s

structuredElements ==
  << <<"D", "e", "a", "r", SP>>,
     <<"S", "u", "b", "j", "e", "c", "t", ":">>,
     <<"T", "o", SP, "W", "h", "o", "m", SP, "I", "t", SP, "M", "a", "y", SP,
       "C", "o", "n", "c", "e", "r", "n">>,
     <<"B", "e", "s", "t", SP, "r", "e", "g", "a", "r", "d", "s", ",">>,
     <<"S", "i", "n", "c", "e", "r", "e", "l", "y", ",">>,
     <<"T", "h", "a", "n", "k", SP, "y", "o", "u", ",">>,
     <<"R", "e", "g", "a", "r", "d", "s", ",">>,
     <<"Y", "o", "u", "r", "s", SP, "t", "r", "u", "l", "y", ",">>,
     <<"W", "a", "r", "m", SP, "r", "e", "g", "a", "r", "d", "s", ",">> >>

\* text.replace(new RegExp(`([^\n])${element}`, 'g'), `$1\n\n${element}`)
RECURSIVE BreakBefore(_, _, _)
BreakBefore(s, i, element) ==
  IF i > Len(s) THEN <<>>
  ELSE IF s[i] # NL /\ StartsWithAt(s, i + 1, element)
       THEN <<s[i], NL, NL>> \o element
              \o BreakBefore(s, i + 1 + Len(element), element)
       ELSE <<s[i]>> \o BreakBefore(s, i + 1, element)

\* structuredElements.forEach(...), the first k elements in order
RECURSIVE RestoreStructure(_, _)
RestoreStructure(s, k) ==
  IF k = 0 THEN s
  ELSE BreakBefore(RestoreStructure(s, k - 1), 1, structuredElements[k])

cleanupMarkdown(text) ==
  IF text = <<>> THEN text
  ELSE LET t1 == JoinVertical(text)
           t2 == ReplaceLiteral(t1, 1, ParagraphMarker, <<NL, NL>>)
           t3 == CollapseNewlines(t2, 1)
           t4 == StandardizeBreaks(t3, 1)
           t5 == StripBold(t4, 1)
           t6 == StripItalic(t5, 1)
           t7 == StripRules(t6, 1)
           t8 == StripHeaders(t7, 1)
           t9 == ReplaceBullets(t8, 1)
           t10 == KeepNumberedLists(t9)
           t11 == RestoreStructure(t10, Len(structuredElements))
       IN Trim(t11)

\* ------------------------------------------------- cleanupMarkdown, applied

\* Characters of the texts tried: markup characters, a letter, blanks.
MdAlphabet == {"#", "*", "-", "a", SP, NL}

MdTexts == SeqsUpTo(MdAlphabet, MaxTextLen)

MdInit ==
  /\ md \in [pc : {"input"}, text : MdTexts, once : {<<>>}, twice : {<<>>}]
  /\ ai = "off" /\ db = "off" /\ rem = "off" /\ cv = "off" /\ au = "off"
  /\ ctl = "off" /\ dm = "off" /\ ep = "off"

\* A caller cleans a model reply.
MdCleanup ==
  /\ md.pc = "input"
  /\ md' = [md EXCEPT !.pc = "cleaned", !.once = cleanupMarkdown(md.text)]
  /\ UNCHANGED <<ai, db, rem, cv, au, ctl, dm, ep>>

\* The cleaned text is cleaned once more.
MdCleanupAgain ==
  /\ md.pc = "cleaned"
  /\ md' = [md EXCEPT !.pc = "recleaned", !.twice = cleanupMarkdown(md.once)]
  /\ UNCHANGED <<ai, db, rem, cv, au, ctl, dm, ep>>

MdNext == MdCleanup \/ MdCleanupAgain

SpecMarkdown == MdInit /\ [][MdNext]_vars

\* C5: cleanupMarkdown is idempotent: cleaning an already cleaned text gives
\* the same text, cleanupMarkdown(cleanupMarkdown(t)) = cleanupMarkdown(t).
C5_Idempotent == md.pc = "recleaned" => md.twice = md.once

\* ------------------------------------------ utils/ai.js getFallbackResponse

\* JavaScript's null and undefined, and "no value yet".
Null == "null"
Undefined == "undefined"

\* userMessage.split(' '): the pieces between single spaces
RECURSIVE Split(_, _)
Split(s, sep) ==
  LET at == {j \in 1..Len(s) : s[j] = sep}
  IN IF at = {} THEN <<s>>
     ELSE <<SubSeq(s, 1, Min(at) - 1)>> \o Split(SubSeq(s, Min(at) + 1, Len(s)), sep)

\* pieces.join(sep)
RECURSIVE Join(_, _)
Join(pieces, sep) ==
  IF pieces = <<>> THEN <<>>
  ELSE IF Len(pieces) = 1 THEN pieces[1]
  ELSE pieces[1] \o <<sep>> \o Join(Tail(pieces), sep)

\* pieces.slice(0, n)
Slice0(pieces, n) == SubSeq(pieces, 1, IF Len(pieces) < n THEN Len(pieces) ELSE n)

\* !userMessage || userMessage.trim() === ''
IsBlank(s) == s = <<>> \/ Trim(s) = <<>>

FallbackWords == 5

Ellipsis == <<".", ".", ".">>

\* userMessage.split(' ').slice(0, 5).join(' ') + (more than 5 pieces ? '...' : '')
ShortUserMessage_DropFirst(userMessage) ==
  Join(Slice0(Tail(Split(userMessage, SP)), FallbackWords - 1), SP)
    \o (IF Len(Split(userMessage, SP)) > FallbackWords THEN Ellipsis ELSE <<>>)

ShortUserMessage(userMessage) ==
  Join(Slice0(Split(userMessage, SP), FallbackWords), SP)
    \o (IF Len(Split(userMessage, SP)) > FallbackWords THEN Ellipsis ELSE <<>>)

\* commandType.toLowerCase(), on the tags the callers pass
ToLowerCase(tag) == IF tag = "DRAFT" THEN "draft" ELSE tag

\* The fixed text of each fallback sentence before and after the quoted
\* words; one element stands for the whole literal.
FallbackHead(tag) ==
  CASE ToLowerCase(tag) = "audit" -> "I'd like to help you audit \""
    [] ToLowerCase(tag) = "draft" -> "I'd be happy to help draft content related to \""
    [] ToLowerCase(tag) = "reminder" -> "I'd like to help you set a reminder for \""
    [] ToLowerCase(tag) = "direct" -> "Thanks for your message about \""
    [] ToLowerCase(tag) = "mention" -> "I noticed you mentioned me regarding \""
    [] OTHER -> "I'd like to help with your request about \""

FallbackTail(tag) ==
  CASE ToLowerCase(tag) = "audit" ->
         "\", but I'm having trouble connecting to my AI services right now. Please try again in a few minutes, or let me know if there's something else I can assist with."
    [] ToLowerCase(tag) = "draft" ->
         "\", but I'm currently experiencing connection issues with my AI services. Please try again shortly, or let me know if there's another way I can help."
    [] ToLowerCase(tag) = "reminder" ->
         "\", but I'm having trouble accessing my AI capabilities at the moment. Please try again soon, or feel free to ask for assistance with something else."
    [] ToLowerCase(tag) = "direct" ->
         "\". I'm currently having trouble connecting to my AI services. Please try again in a few minutes, or let me know if there's something else I can help with."
    [] ToLowerCase(tag) = "mention" ->
         "\". I'm currently experiencing some technical difficulties with my AI capabilities. Please try again shortly, or let me know if there's another way I can assist you."
    [] OTHER ->
         "\", but I'm having trouble connecting to my AI services right now. Please try again in a few minutes, or let me know if there's something else I can assist with."

NoContentFallback ==
  <<"I'm sorry, I didn't receive any content to process. How can I help you today?">>

getFallbackResponse(userMessage, commandType) ==
  IF IsBlank(userMessage) THEN NoContentFallback
  ELSE <<FallbackHead(commandType)>> \o ShortUserMessage(userMessage)
         \o <<FallbackTail(commandType)>>

\* ------------------------------------------------ utils/ai.js getAIResponse

PromptAlphabet == {"a", SP}

Prompts == SeqsUpTo(PromptAlphabet, MaxPromptLen)

\* The task tags the command and message handlers pass, in the spellings the
\* switch statements tell apart, and 'message', the default parameter value.
TaskTags == {"audit", "draft", "DRAFT", "reminder", "direct", "mention", "message"}

ReplyAlphabet == {"a", "*"}

\* What one streamed chunk carries in choices[0].delta.content.
ChunkContents == ReplyAlphabet \cup {Undefined}

\* global.playlabApiStatus as the entry points create it
\* (api/slack-events.js and the socket-mode app); api/socket-worker.js and
\* app.js create none.
StatusRecords ==
  { [defined |-> TRUE, available |-> TRUE, error |-> Null, attempts |-> 0,
     lastAttempt |-> "date"],
    [defined |-> TRUE, available |-> TRUE, error |-> Null, attempts |-> 0,
     lastAttempt |-> Null] }

\* global.playlabApiStatus where no entry point assigned it.
StatusUndefined ==
  [defined |-> FALSE, available |-> FALSE, error |-> Null, attempts |-> 0,
   lastAttempt |-> Null]

NoResult == <<"no result">>

AiInit ==
  /\ ai \in [ pc : {"idle"}, prompt : Prompts, tag : TaskTags,
              status : StatusRecords \cup {StatusUndefined},
              client : {"ready", Undefined},
              trail : {<<>>}, result : {NoResult}, threw : {FALSE} ]
  /\ md = "off" /\ db = "off" /\ rem = "off" /\ cv = "off" /\ au = "off"
  /\ ctl = "off" /\ dm = "off" /\ ep = "off"

\* fullResponse += chunk.choices[0]?.delta?.content || ''
RECURSIVE FullResponse(_)
FullResponse(chunks) ==
  IF chunks = <<>> THEN <<>>
  ELSE (IF chunks[1] = Undefined THEN <<>> ELSE <<chunks[1]>>)
         \o FullResponse(Tail(chunks))

\* x || y on strings: the empty string is falsy
OrElse(x, y) == IF x = <<>> THEN y ELSE x

\* A catch block that marks the health record and lets the error go on.
AiCatch_Rethrow(a, trail) ==
  [a EXCEPT !.pc = "returned", !.trail = trail,
            !.status = [a.status EXCEPT !.available = FALSE, !.error = "message"],
            !.threw = TRUE]

\* The catch block of getAIResponse: the health record is marked and the
\* fallback sentence is returned.
AiCatch(a, trail) ==
  [a EXCEPT !.pc = "returned", !.trail = trail,
            !.status = [a.status EXCEPT !.available = FALSE, !.error = "message"],
            !.result = getFallbackResponse(a.prompt, a.tag)]

\* An inner catch block that asks for a stream once more.
AiRetry_Streaming(a) ==
  [a EXCEPT !.pc = "streaming", !.trail = a.trail \o <<"stream_fail", "stream_req">>]

\* The inner catch block: the non-streaming request is issued.
AiRetry(a) ==
  [a EXCEPT !.pc = "plain", !.trail = a.trail \o <<"stream_fail", "plain_req">>]

\* getAIResponse(prompt, commandType) up to its first await, for the prompt
\* and the tag of this behaviour.
AiCall ==
  /\ ai.pc = "idle"
  /\ LET a == ai
     IN IF IsBlank(a.prompt)
          THEN ai' = [a EXCEPT !.pc = "returned",
                               !.result = getFallbackResponse(a.prompt, a.tag)]
          ELSE IF ~a.status.defined
          THEN \* attempts++ on undefined throws; so does the catch block's
               \* assignment to .available, and that error leaves the function
               ai' = [a EXCEPT !.pc = "returned", !.threw = TRUE]
          ELSE LET b == [a EXCEPT !.status.attempts = @ + 1,
                                  !.status.lastAttempt = "date"]
               IN IF b.client = Undefined
                  THEN \* openai.chat throws in the inner try and again in
                       \* the inner catch: no request leaves the process
                       ai' = AiCatch(b, <<"stream_throw", "plain_throw">>)
                  ELSE ai' = [b EXCEPT !.pc = "streaming", !.trail = <<"stream_req">>]
  /\ UNCHANGED <<md, db, rem, cv, au, ctl, dm, ep>>

\* The streaming request completes: every chunk arrived.
AiStreamDone ==
  /\ ai.pc = "streaming"
  /\ \E chunks \in SeqsUpTo(ChunkContents, MaxReplyLen) :
       ai' = [ai EXCEPT !.pc = "returned",
                        !.trail = @ \o <<"stream_ok">>,
                        !.status.available = TRUE,
                        !.status.error = Null,
                        !.result = OrElse(cleanupMarkdown(Trim(FullResponse(chunks))),
                                          getFallbackResponse(ai.prompt, ai.tag))]
  /\ UNCHANGED <<md, db, rem, cv, au, ctl, dm, ep>>

\* The streaming request is rejected, or the stream breaks off.
AiStreamFail ==
  /\ ai.pc = "streaming"
  /\ ai' = AiRetry(ai)
  /\ UNCHANGED <<md, db, rem, cv, au, ctl, dm, ep>>

\* The non-streaming request completes with choices[0].message.content.
AiPlainDone ==
  /\ ai.pc = "plain"
  /\ \E content \in SeqsUpTo(ReplyAlphabet, MaxReplyLen), isNull \in BOOLEAN :
       IF isNull
       THEN \* null.trim() throws after the health record was updated
            ai' = AiCatch([ai EXCEPT !.status.available = TRUE, !.status.error = Null],
                          ai.trail \o <<"plain_ok">>)
       ELSE ai' = [ai EXCEPT !.pc = "returned",
                             !.trail = @ \o <<"plain_ok">>,
                             !.status.available = TRUE,
                             !.status.error = Null,
                             !.result = cleanupMarkdown(Trim(content))]
  /\ UNCHANGED <<md, db, rem, cv, au, ctl, dm, ep>>

\* The non-streaming request is rejected.
AiPlainFail ==
  /\ ai.pc = "plain"
  /\ ai' = AiCatch(ai, ai.trail \o <<"plain_fail">>)
  /\ UNCHANGED <<md, db, rem, cv, au, ctl, dm, ep>>

AiNext == AiCall \/ AiStreamDone \/ AiStreamFail \/ AiPlainDone \/ AiPlainFail

SpecAI == AiInit /\ [][AiNext]_vars

\* ------------------------------------------------ properties of the gateway

Range(f) == {f[i] : i \in DOMAIN f}

Last(s) == s[Len(s)]

\* needle occurs in hay as a contiguous piece
Contains(hay, needle) ==
  \E i \in 1..(Len(hay) - Len(needle) + 1) :
    SubSeq(hay, i, i + Len(needle) - 1) = needle

\* The prompt up to, and without, its fifth space: its first five words.
FirstWords(p) ==
  LET sp == {j \in 1..Len(p) : p[j] = SP}
  IN IF Cardinality(sp) < 5 THEN p
     ELSE SubSeq(p, 1, (CHOOSE j \in sp : Cardinality({k \in sp : k <= j}) = 5) - 1)

\* The call has returned after the streaming attempt and the non-streaming
\* retry both failed.
AiBothFailed ==
  /\ ai.pc = "returned"
  /\ ai.trail # <<>>
  /\ Last(ai.trail) \in {"plain_fail", "plain_throw"}

\* C1: for every task tag and every non-empty prompt, when the streaming
\* attempt and the non-streaming retry both fail, getAIResponse raises no
\* exception and returns a non-empty fallback sentence that is a function of
\* the prompt and the tag alone, that quotes the first words of the prompt,
\* and that differs from the sentence of every other task.
C1_FallbackOnFailure ==
  (AiBothFailed /\ ~IsBlank(ai.prompt)) =>
    /\ ~ai.threw
    /\ ai.result # <<>> /\ ai.result # NoResult
    /\ ai.result = getFallbackResponse(ai.prompt, ai.tag)
    /\ FirstWords(ai.prompt) # <<>>
    /\ Contains(ai.result, FirstWords(ai.prompt))
    /\ \A t \in {"audit", "draft", "reminder", "direct", "mention", "message"} :
         t # ToLowerCase(ai.tag) => getFallbackResponse(ai.prompt, t) # ai.result

\* C1 witness: both requests of a 'mention' call failed for a prompt of more
\* than five words.
C1_Witness ==
  /\ AiBothFailed
  /\ ai.tag = "mention"
  /\ Len(Split(ai.prompt, SP)) > FallbackWords
  /\ ai.trail = <<"stream_req", "stream_fail", "plain_req", "plain_fail">>

AiRequests == SelectSeq(ai.trail, LAMBDA e : e \in {"stream_req", "plain_req"})

\* C7: the streaming request is the first request of a call; the
\* non-streaming request is issued at most once and only right after the
\* streaming attempt failed; a call makes at most two requests, and none
\* after a streaming success.
C7_StreamingFirst ==
  /\ Len(AiRequests) <= 2
  /\ AiRequests # <<>> => AiRequests[1] = "stream_req"
  /\ Cardinality({i \in DOMAIN ai.trail : ai.trail[i] = "plain_req"}) <= 1
  /\ \A i \in DOMAIN ai.trail :
       ai.trail[i] = "plain_req" => (i > 1 /\ ai.trail[i - 1] = "stream_fail")
  /\ \A i \in DOMAIN ai.trail :
       ai.trail[i] = "stream_ok" => \A j \in DOMAIN ai.trail : (j > i => ai.trail[j] \notin {"stream_req", "plain_req"})

\* C7 witness: a call that returned the text of the non-streaming retry.
C7_Witness ==
  /\ ai.pc = "returned"
  /\ ai.trail = <<"stream_req", "stream_fail", "plain_req", "plain_ok">>
  /\ ai.result = <<"a">>

\* ----------------------------------------- utils/database.js DatabaseManager

\* if (Date.now() - this.lastPingTime > 60000)
PingIntervalMs == 60000

\* The clock of the model advances in steps of half the ping interval.
ClockStepMs == PingIntervalMs \div 2

\* The callers of the gateway that run at the same time.
Procs == {"h1", "h2"}

Projects == {"mobile-app", "ghost"}

\* The data each caller writes.
PayloadOf(p) == IF p = "h1" THEN "v1" ELSE "v2"

SelectNow == "SELECT NOW()"

NoRow == [project_id |-> Null, data |-> Null]

EmptyList == <<>>

ProcIdle ==
  [op |-> "none", pc |-> "idle", projectId |-> Null, data |-> Null,
   frames |-> <<>>, pings |-> 0, result |-> NoRow, list |-> EmptyList,
   ok |-> FALSE, threw |-> FALSE, failed |-> FALSE]

\* new DatabaseManager(config): the pool exists, lastPingTime is the time of
\* construction and the status is 'initializing'. Without DATABASE_URL there
\* is no manager. Whether the roadmaps table declares project_id unique is a
\* property of the deployed schema, which the repository does not define.
DbInit ==
  /\ db \in [ configured : BOOLEAN, uniqueKey : BOOLEAN,
              connectionStatus : {"initializing"},
              now : {0}, lastPingTime : {0}, ticks : {0}, started : {0},
              rows : {<<>>},
              proc : {[p \in Procs |-> ProcIdle]} ]
  /\ md = "off" /\ ai = "off" /\ rem = "off" /\ cv = "off" /\ au = "off"
  /\ ctl = "off" /\ dm = "off" /\ ep = "off"

\* rows of the table for a project, in insertion order
RowsOf(d, projectId) == SelectSeq(d.rows, LAMBDA r : r.project_id = projectId)

\* result.rows.length > 0 ? result.rows[0] : null
FirstOrNull(rs) == IF Len(rs) > 0 THEN rs[1] ELSE NoRow

\* Date.now() - this.lastPingTime > 60000
PingDue(d) == d.now - d.lastPingTime > PingIntervalMs

\* The synchronous part of DatabaseManager.query(text): the frames that are
\* on the stack when the innermost one awaits pool.query. When a ping is due
\* and the status is not 'error', query calls pingDatabase, which calls
\* query('SELECT NOW()') before lastPingTime is updated, so the nested query
\* finds the ping due again: the nesting ends only when the stack is
\* exhausted. The first frame is the caller's query, the last the innermost.
QueryFrames(d, text) ==
  IF PingDue(d) /\ d.connectionStatus # "error"
  THEN <<text>> \o [i \in 1..(StackLimit - 1) |-> SelectNow]
  ELSE <<text>>

\* A caller enters dbManager.query(text). The RangeError of an exhausted
\* stack is caught by pingDatabase (which sets the status to 'error') or by
\* the try block of query around the ping (which only logs it).
EnterQuery(d, p, text, overflowInPing) ==
  LET fr == QueryFrames(d, text)
  IN [d EXCEPT !.proc[p].pc = "query",
               !.proc[p].frames = fr,
               !.proc[p].pings = IF Len(fr) > 1 THEN 1 ELSE 0,
               !.connectionStatus =
                  IF Len(fr) > 1 /\ overflowInPing THEN "error" ELSE @]

\* The query text each operation of the gateway starts with.
FirstQuery(op) ==
  CASE op = "get" -> "SELECT"
    [] op = "update" -> "SELECT"
    [] op = "list" -> "LIST"
    [] OTHER -> "TEST"

\* A catch block that logs the error and throws it again.
OpCatch_Rethrow(d, p) ==
  [d EXCEPT !.proc[p].pc = "done", !.proc[p].frames = <<>>,
            !.proc[p].failed = TRUE, !.proc[p].threw = TRUE]

\* The catch block of getRoadmapData, listRoadmapProjects, updateRoadmapData
\* and testConnection: the error is logged and null, [] or false is returned.
OpCatch(d, p) ==
  [d EXCEPT !.proc[p].pc = "done", !.proc[p].frames = <<>>,
            !.proc[p].failed = TRUE, !.proc[p].ok = FALSE,
            !.proc[p].result = NoRow, !.proc[p].list = EmptyList]

\* if (!checkDbAvailable()) return null / [] / false
OpUnavailable(d, p) ==
  [d EXCEPT !.proc[p].pc = "done", !.proc[p].ok = FALSE,
            !.proc[p].result = NoRow, !.proc[p].list = EmptyList]

\* An operation of the gateway up to its first await.
StartOp(d, p, op, projectId, data, overflowInPing) ==
  LET d1 == [d EXCEPT !.started = @ + 1,
                      !.proc[p] = [ProcIdle EXCEPT !.op = op,
                                                   !.projectId = projectId,
                                                   !.data = data]]
  IN IF ~d1.configured THEN OpUnavailable(d1, p)
     ELSE EnterQuery(d1, p, FirstQuery(op), overflowInPing)

\* getRoadmapData, listRoadmapProjects, updateRoadmapData or testConnection
\* is called.
DbCall ==
  /\ db.started < MaxOps
  /\ \E p \in Procs, op \in {"get", "list", "update", "test"},
        projectId \in Projects, overflowInPing \in BOOLEAN :
       /\ db.proc[p].pc \in {"idle", "done"}
       /\ op = "update" => projectId = "mobile-app"
       /\ op \in {"list", "test"} => projectId = "mobile-app"
       /\ db' = StartOp(db, p, op, projectId, PayloadOf(p), overflowInPing)
  /\ UNCHANGED <<md, ai, rem, cv, au, ctl, dm, ep>>

\* UPDATE roadmaps SET data = $1 WHERE project_id = $2
UpdateRows(rows, projectId, data) ==
  [i \in DOMAIN rows |->
     IF rows[i].project_id = projectId THEN [rows[i] EXCEPT !.data = data]
     ELSE rows[i]]

\* INSERT INTO roadmaps (project_id, data, ...) VALUES ($1, $2, ...)
InsertRow(rows, projectId, data) ==
  Append(rows, [project_id |-> projectId, data |-> data])

\* The database rejects the statement itself: an INSERT of a second row for
\* a project_id the schema declares unique.
Rejected(d, p, text) ==
  text = "INSERT" /\ d.uniqueKey /\ Len(RowsOf(d, d.proc[p].projectId)) > 0

\* The caller's own query succeeded: the operation goes on with its rows.
Continue(d, p, text, overflowInPing) ==
  LET pr == d.proc[p]
      found == RowsOf(d, pr.projectId)
  IN CASE text = "TEST" ->
            [d EXCEPT !.proc[p].pc = "done", !.proc[p].frames = <<>>,
                      !.proc[p].ok = TRUE]
       [] text = "LIST" ->
            [d EXCEPT !.proc[p].pc = "done", !.proc[p].frames = <<>>,
                      !.proc[p].ok = TRUE,
                      !.proc[p].list = [i \in DOMAIN d.rows |-> d.rows[i].project_id]]
       [] text = "SELECT" /\ pr.op = "get" ->
            [d EXCEPT !.proc[p].pc = "done", !.proc[p].frames = <<>>,
                      !.proc[p].ok = TRUE,
                      !.proc[p].result = FirstOrNull(found)]
       [] text = "SELECT" /\ pr.op = "update" ->
            \* existingRecord.rowCount > 0 ? UPDATE : INSERT
            EnterQuery(d, p, IF Len(found) > 0 THEN "UPDATE" ELSE "INSERT",
                       overflowInPing)
       [] text = "UPDATE" ->
            LET rows2 == UpdateRows(d.rows, pr.projectId, pr.data)
            IN [d EXCEPT !.rows = rows2,
                         !.proc[p].pc = "done", !.proc[p].frames = <<>>,
                         !.proc[p].ok = TRUE,
                         !.proc[p].result =
                            FirstOrNull(SelectSeq(rows2, LAMBDA r : r.project_id = pr.projectId))]
       [] OTHER ->
            LET rows2 == InsertRow(d.rows, pr.projectId, pr.data)
            IN [d EXCEPT !.rows = rows2,
                         !.proc[p].pc = "done", !.proc[p].frames = <<>>,
                         !.proc[p].ok = TRUE,
                         !.proc[p].result = [project_id |-> pr.projectId, data |-> pr.data]]

\* pool.query of the innermost frame of p succeeds.
DbReplyOk ==
  /\ \E p \in Procs, overflowInPing \in BOOLEAN :
       /\ db.proc[p].pc = "query"
       /\ LET fr == db.proc[p].frames
              below == SubSeq(fr, 1, Len(fr) - 1)
              d1 == [db EXCEPT !.connectionStatus = "connected"]
          IN /\ ~Rejected(db, p, Last(fr))
             /\ IF Len(fr) > 1
                THEN \* the ping of pingDatabase returned: lastPingTime is set
                     \* and the frame below sends its own query
                     db' = [d1 EXCEPT !.lastPingTime = d1.now,
                                      !.proc[p].frames = below,
                                      !.proc[p].pings =
                                         IF Len(below) > 1 THEN @ + 1 ELSE @]
                ELSE db' = Continue(d1, p, Last(fr), overflowInPing)
  /\ UNCHANGED <<md, ai, rem, cv, au, ctl, dm, ep>>

\* pool.query of the innermost frame of p fails, with a connection error or
\* with another error.
DbReplyError ==
  /\ \E p \in Procs, connectionError \in BOOLEAN :
       /\ db.proc[p].pc = "query"
       /\ LET fr == db.proc[p].frames
              below == SubSeq(fr, 1, Len(fr) - 1)
              d1 == [db EXCEPT !.connectionStatus =
                                  IF connectionError THEN "error" ELSE @]
          IN /\ Rejected(db, p, Last(fr)) => ~connectionError
             /\ IF Len(fr) > 1
                THEN \* caught by pingDatabase: status 'error', no new
                     \* lastPingTime; the frame below sends its own query
                     db' = [d1 EXCEPT !.connectionStatus = "error",
                                      !.proc[p].frames = below,
                                      !.proc[p].pings =
                                         IF Len(below) > 1 THEN @ + 1 ELSE @]
                ELSE db' = OpCatch(d1, p)
  /\ UNCHANGED <<md, ai, rem, cv, au, ctl, dm, ep>>

\* pool.on('error'): an idle client of the pool fails.
DbPoolError ==
  /\ db.configured
  /\ db.connectionStatus # "error"
  /\ db' = [db EXCEPT !.connectionStatus = "error"]
  /\ UNCHANGED <<md, ai, rem, cv, au, ctl, dm, ep>>

\* Time passes.
DbTick ==
  /\ db.ticks < MaxTicks
  /\ db' = [db EXCEPT !.now = @ + ClockStepMs, !.ticks = @ + 1]
  /\ UNCHANGED <<md, ai, rem, cv, au, ctl, dm, ep>>

DbNext == DbCall \/ DbReplyOk \/ DbReplyError \/ DbPoolError \/ DbTick

SpecDb == DbInit /\ [][DbNext]_vars

\* ----------------------------------------- properties of the database gateway

\* C8: getRoadmapData, listRoadmapProjects and updateRoadmapData never
\* propagate an error: none of them ends by throwing, and when a query failed
\* or no pool is configured, get and update return null and list returns an
\* empty collection.
C8_NoDbErrorEscapes ==
  \A p \in Procs :
    LET pr == db.proc[p]
    IN (pr.pc = "done" /\ pr.op \in {"get", "list", "update"}) =>
         /\ ~pr.threw
         /\ (pr.failed \/ ~db.configured) =>
              /\ pr.op \in {"get", "update"} => pr.result = NoRow
              /\ pr.op = "list" => pr.list = EmptyList

\* C8 witness: updateRoadmapData returned null because its UPDATE failed
\* after the existence check had found the row.
C8_Witness ==
  \E p \in Procs :
    /\ db.proc[p].pc = "done" /\ db.proc[p].op = "update"
    /\ db.proc[p].failed /\ db.proc[p].result = NoRow
    /\ Len(RowsOf(db, "mobile-app")) = 1
    /\ db.connectionStatus = "error"

\* C9: DatabaseManager.query sends a keepalive ping only when more than 60
\* seconds have passed since the last ping, and then at most one ping before
\* it runs the caller's query.
C9_AtMostOnePing ==
  \A p \in Procs : db.proc[p].pings <= 1

\* C10: roadmap rows are keyed by project_id: after any sequence or
\* interleaving of updateRoadmapData calls the table holds at most one row
\* for a project_id, and exactly one once a call for it has written.
C10_OneRowPerProject ==
  \A projectId \in Projects :
    /\ Len(RowsOf(db, projectId)) <= 1
    /\ (\E p \in Procs : /\ db.proc[p].pc = "done" /\ db.proc[p].op = "update"
                        /\ db.proc[p].projectId = projectId /\ db.proc[p].ok)
         => Len(RowsOf(db, projectId)) = 1

\* ---------------------------- commands/audit.js handleAuditCommand (roadmaps)

\* command.text of the /audit invocations tried: nothing, a blank, a project
\* id, a project id between blanks. A project id is one element.
AuditTexts ==
  {<<>>, <<SP>>, <<"ghost">>, <<SP, "ghost", SP>>, <<"mobile-app">>}

\* The caller slot of the gateway the handler's database call runs in.
AuditProc == "h1"

AuInit ==
  /\ au \in [ pc : {"start"}, text : AuditTexts, pending : {"none"},
              posts : {<<>>}, threw : {FALSE}, platformFailed : {FALSE} ]
  /\ db \in [ configured : BOOLEAN, uniqueKey : {FALSE},
              connectionStatus : {"initializing"},
              now : {0}, lastPingTime : {0}, ticks : {0}, started : {0},
              rows : {<<>>, <<[project_id |-> "mobile-app", data |-> "v1"]>>},
              proc : {[p \in Procs |-> ProcIdle]} ]
  /\ md = "off" /\ ai = "off" /\ rem = "off" /\ cv = "off"
  /\ ctl = "off" /\ dm = "off" /\ ep = "off"

\* command.text.trim()
AuditProjectId(a) == Trim(a.text)

\* A message handed to respond() or say(); it is in flight until the
\* platform answers.
AuSend(a, kind) == [a EXCEPT !.pc = "post", !.pending = kind]

\* A handler that sends whatever getRoadmapData returned to the language
\* model.
AuAfterGet_NoNullCheck(a, row) == [a EXCEPT !.pc = "openai"]

\* if (!roadmapData) respond('No roadmap data found ...'), else the roadmap
\* is sent to the language model
AuAfterGet(a, row) ==
  IF row = NoRow THEN AuSend(a, "no_roadmap_data")
  ELSE [a EXCEPT !.pc = "openai"]

\* await ack(), then the synchronous code up to the next await
AuAck ==
  /\ au.pc = "start"
  /\ \E acked \in BOOLEAN, overflowInPing \in BOOLEAN :
       IF ~acked
       THEN \* ack() is outside the try block
            /\ au' = [au EXCEPT !.pc = "done", !.threw = TRUE, !.platformFailed = TRUE]
            /\ db' = db
       ELSE IF AuditProjectId(au) = <<>>
       THEN /\ au' = [au EXCEPT !.pc = "list"]
            /\ db' = StartOp(db, AuditProc, "list", "mobile-app",
                             PayloadOf(AuditProc), overflowInPing)
       ELSE /\ au' = AuSend(au, "analyzing")
            /\ db' = db
  /\ UNCHANGED <<md, ai, rem, cv, ctl, dm, ep>>

\* The platform accepts the message in flight.
AuPostDelivered ==
  /\ au.pc = "post"
  /\ \E overflowInPing \in BOOLEAN :
       LET a == [au EXCEPT !.posts = Append(@, [kind |-> au.pending,
                                                project |-> AuditProjectId(au)]),
                           !.pending = "none"]
       IN IF au.pending = "analyzing"
          THEN /\ au' = [a EXCEPT !.pc = "get"]
               /\ db' = StartOp(db, AuditProc, "get", AuditProjectId(au)[1],
                                PayloadOf(AuditProc), overflowInPing)
          ELSE /\ au' = [a EXCEPT !.pc = "done"]
               /\ db' = db
  /\ UNCHANGED <<md, ai, rem, cv, ctl, dm, ep>>

\* The platform rejects the message in flight: the catch block sends the
\* error message; when that one is rejected the error leaves the handler.
AuPostFailed ==
  /\ au.pc = "post"
  /\ au' = IF au.pending = "error"
           THEN [au EXCEPT !.pc = "done", !.pending = "none", !.threw = TRUE,
                           !.platformFailed = TRUE]
           ELSE [au EXCEPT !.pending = "error", !.platformFailed = TRUE]
  /\ UNCHANGED <<md, ai, db, rem, cv, ctl, dm, ep>>

\* listRoadmapProjects or getRoadmapData has returned to the handler.
AuDbDone ==
  /\ au.pc \in {"list", "get"}
  /\ db.proc[AuditProc].pc = "done"
  /\ au' = IF db.proc[AuditProc].threw THEN AuSend(au, "error")
           ELSE IF au.pc = "list"
           THEN IF Len(db.proc[AuditProc].list) = 0
                THEN AuSend(au, "no_projects")
                ELSE AuSend(au, "project_list")
           ELSE AuAfterGet(au, db.proc[AuditProc].result)
  /\ UNCHANGED <<md, ai, db, rem, cv, ctl, dm, ep>>

\* openai.chat.completions.create answers; roadmapData.data is read for the
\* prompt, which throws when roadmapData is null.
AuOpenaiDone ==
  /\ au.pc = "openai"
  /\ \E completed \in BOOLEAN :
       au' = IF completed /\ db.proc[AuditProc].result # NoRow
             THEN AuSend(au, "audit_result")
             ELSE AuSend(au, "error")
  /\ UNCHANGED <<md, ai, db, rem, cv, ctl, dm, ep>>

AuNext ==
  \/ AuAck \/ AuPostDelivered \/ AuPostFailed \/ AuDbDone \/ AuOpenaiDone
  \/ DbReplyOk \/ DbReplyError \/ DbPoolError \/ DbTick

SpecAudit == AuInit /\ [][AuNext]_vars

\* C6: /audit for a project id that has no row in the roadmaps table answers
\* with the "No roadmap data found" message for that project and raises no
\* exception (the platform accepting the handler's calls).
C6_NoRoadmapData ==
  (/\ au.pc = "done"
   /\ AuditProjectId(au) = <<"ghost">>
   /\ RowsOf(db, "ghost") = <<>>
   /\ ~au.platformFailed) =>
    /\ ~au.threw
    /\ au.posts # <<>>
    /\ Last(au.posts) = [kind |-> "no_roadmap_data", project |-> <<"ghost">>]
    /\ \A i \in DOMAIN au.posts : au.posts[i].kind # "error"

\* C6 witness: "/audit  ghost " was answered after the database had answered
\* the SELECT with no row.
C6_Witness ==
  /\ au.pc = "done"
  /\ au.text = <<SP, "ghost", SP>>
  /\ db.proc[AuditProc].ok /\ db.proc[AuditProc].result = NoRow
  /\ Len(au.posts) = 2

\* ------------------- commands/reminder.js, commands/convo.js, part_004: reminders

\* The reminder modules of the repository: reminder.js hands the reminder to
\* the platform (chat.scheduleMessage), part_004 does the same but its
\* command handler passes a null client, convo.js keeps an in-process timer.
RemVariants == {"reminder.js", "part_004", "convo.js"}

\* Milliseconds in a second: Math.floor(reminderTime.getTime() / 1000)
SecondMs == 1000

\* The requested time minus the current time, in milliseconds.
RemOffsets == {0 - SecondMs, 0 - 1, 0, 1, SecondMs}

\* A delete button click carries the reminder id in body.actions, in
\* body.value, or nowhere.
BodyShapes == {"actions", "value", "none"}

RemNoCall ==
  [ op |-> "none", id |-> 0, delta |-> 0, nan |-> FALSE, postAt |-> 0,
    via |-> "none", pending |-> "none", stage |-> "try",
    platformFailed |-> FALSE, existed |-> FALSE, parse |-> "none",
    detail |-> <<>>, replyFailed |-> FALSE ]

\* One scheduled message may be left on the platform by an earlier run of
\* the process; activeReminders is in memory and starts empty.
RemInit ==
  /\ rem \in [ variant : RemVariants, now : {5 * SecondMs}, ticks : {0},
               ops : {0},
               scheduled : {{}, {[id |-> 0, postAt |-> 7]}},
               activeReminders : {{}}, timers : {{}}, nextId : {1},
               pc : {"idle"}, cur : {RemNoCall}, log : {<<>>} ]
  /\ md = "off" /\ ai = "off" /\ db = "off" /\ cv = "off" /\ au = "off"
  /\ ctl = "off" /\ dm = "off" /\ ep = "off"

ScheduledIds(r) == {m.id : m \in r.scheduled}

\* An entry of the record of what happened: a request of a user with what
\* the user saw of it, or a reminder that was posted (op "fire").
LogEntry(c, kind, threw) ==
  [ op |-> c.op, id |-> c.id, delta |-> c.delta, nan |-> c.nan,
    via |-> c.via, kind |-> kind, threw |-> threw,
    platformFailed |-> c.platformFailed, existed |-> c.existed,
    parse |-> c.parse, detail |-> c.detail, replyFailed |-> c.replyFailed ]

\* The record keeps the last two events: the one before and the new one.
Remember(log, e) == IF log = <<>> THEN <<e>> ELSE <<log[Len(log)], e>>

\* The handler is over: what the user saw is put on record.
RemFinish(r, kind, threw) ==
  [r EXCEPT !.pc = "idle", !.cur = RemNoCall,
            !.log = Remember(@, LogEntry(r.cur, kind, threw))]

\* The reminder message of reminder id reaches the channel.
RemFired(r, id) ==
  [r EXCEPT !.log = Remember(@, LogEntry([RemNoCall EXCEPT !.op = "fire",
                                                            !.id = id],
                                         "posted", FALSE))]

\* scheduleReminder(reminderData, client) up to its first await. An invalid
\* date gives NaN, and NaN <= 0 is false.
scheduleReminder(r) ==
  IF ~r.cur.nan /\ r.cur.delta <= 0
  THEN RemFinish(r, "rejected_past", FALSE)
  ELSE CASE r.variant = "convo.js" ->
              RemFinish([r EXCEPT !.timers = @ \cup
                                     {[id |-> r.nextId,
                                       dueAt |-> IF r.cur.nan THEN r.now
                                                 ELSE r.now + r.cur.delta]},
                                  !.activeReminders = @ \cup {r.nextId},
                                  !.nextId = @ + 1],
                        "scheduled", FALSE)
         [] r.variant = "part_004" ->
              \* client is null: client.chat throws inside the try block
              RemFinish(r, "failed_schedule", FALSE)
         [] OTHER -> [r EXCEPT !.pc = "scheduleMessage"]

\* The reply of the language model to the parse request, as a sequence of
\* pieces: a brace, the field "time" with a value, the field "time" with
\* null, the field "text", or any other text.
ReplyPieces == {"{", "}", "time", "time_null", "text", "x"}

ParseReplies == SeqsUpTo(ReplyPieces, MaxReplyTokens)

\* parseResult.match(/\{.*\}/s): from the first opening brace to the last
\* closing brace, <<>> when there is no such stretch.
JsonMatch(reply) ==
  LET opens == {i \in DOMAIN reply : reply[i] = "{"}
      closes == {i \in DOMAIN reply : reply[i] = "}"}
  IN IF opens = {} \/ closes = {} \/ Max(closes) < Min(opens) THEN <<>>
     ELSE SubSeq(reply, Min(opens), Max(closes))

\* parseReminderDateTime: the time of the parsed object, "null" when nothing
\* matched, JSON.parse threw, or the object has no time (of two "time"
\* fields the last one counts).
parseReminderDateTime(reply) ==
  LET json == JsonMatch(reply)
      inner == SubSeq(json, 2, Len(json) - 1)
      times == {i \in DOMAIN inner : inner[i] \in {"time", "time_null"}}
  IN IF json = <<>> THEN "null"
     ELSE IF \E i \in DOMAIN inner : inner[i] \notin {"time", "time_null", "text"}
     THEN "null"
     ELSE IF times # {} /\ inner[Max(times)] = "time" THEN "time"
     ELSE "null"

\* A handler that goes on to scheduleReminder whatever was parsed.
AfterParse_Always(time) == "parsed"

\* What parseReminderDateTime can hand to the handler, over all replies.
ParseOutcomes == {parseReminderDateTime(reply) : reply \in ParseReplies}

\* if (time) { ... scheduleReminder ... } else { ... suggestions ... }
AfterParse(time) == IF time = "null" THEN "suggest" ELSE "parsed"

\* /reminder <task> <time>: the placeholder is out and the reply to the
\* parse request has arrived. Without a time the handler asks the language
\* model for suggestions.
RemCommand ==
  /\ rem.pc = "idle"
  /\ rem.ops < MaxRemOps
  /\ \E time \in ParseOutcomes :
          rem' = [rem EXCEPT !.pc = AfterParse(time), !.ops = @ + 1,
                             !.cur = [RemNoCall EXCEPT
                                        !.op = "schedule", !.via = "command",
                                        !.parse = time]]
  /\ UNCHANGED <<md, ai, db, cv, au, ctl, dm, ep>>

\* getAIResponse returns the suggestions and the placeholder is replaced by
\* "I couldn't determine when to remind you ...".
RemSuggest ==
  /\ rem.pc = "suggest"
  /\ rem' = [rem EXCEPT !.pc = "notify", !.cur.pending = "suggestions",
                        !.cur.stage = "try"]
  /\ UNCHANGED <<md, ai, db, cv, au, ctl, dm, ep>>

\* if (time) scheduleReminder(...), with the time the text was parsed to.
RemSchedule ==
  /\ rem.pc = "parsed"
  /\ \E delta \in RemOffsets, nan \in BOOLEAN :
       /\ nan => delta = 0
       /\ rem' = scheduleReminder(
                   [rem EXCEPT !.cur = [rem.cur EXCEPT
                       !.id = IF rem.cur.op = "schedule" THEN rem.nextId
                              ELSE @,
                       !.delta = delta, !.nan = nan,
                       !.postAt = (rem.now + delta) \div SecondMs]])
  /\ UNCHANGED <<md, ai, db, cv, au, ctl, dm, ep>>

\* chat.scheduleMessage answers with a scheduled_message_id; the platform
\* takes only a post_at that is in the future.
RemScheduleOk ==
  /\ rem.pc = "scheduleMessage"
  /\ ~rem.cur.nan
  /\ rem.cur.postAt * SecondMs > rem.now
  /\ rem' = RemFinish([rem EXCEPT !.scheduled = @ \cup
                                     {[id |-> rem.nextId, postAt |-> rem.cur.postAt]},
                                  !.activeReminders = @ \cup {rem.nextId},
                                  !.nextId = @ + 1],
                      "scheduled", FALSE)
  /\ UNCHANGED <<md, ai, db, cv, au, ctl, dm, ep>>

\* A message for the user is handed to say(), respond() or chat.postMessage.
RemNotify(r, kind, stage) ==
  [r EXCEPT !.pc = "notify", !.cur.pending = kind, !.cur.stage = stage]

\* The error messages of a rejected schedule call.
PlatformErrors == {"channel_not_found", "time_in_past"}

ScheduleError_Generic(message) == <<"Failed to schedule reminder">>

\* throw new Error(`Failed to schedule reminder: ${error.message}`)
ScheduleError(message) == <<"Failed to schedule reminder: ", message>>

\* chat.scheduleMessage (reminders.add in the second copy) fails: the error
\* is wrapped and thrown before activeReminders is touched, and the catch
\* block of the handler replaces the placeholder by "I couldn't set your
\* reminder (<message of the error>)".
RemScheduleFail ==
  /\ rem.pc = "scheduleMessage"
  /\ \E message \in PlatformErrors :
       rem' = RemNotify([rem EXCEPT !.cur.platformFailed = TRUE,
                                    !.cur.detail = ScheduleError(message)],
                        "failed_schedule", "inner")
  /\ UNCHANGED <<md, ai, db, cv, au, ctl, dm, ep>>

\* A second passes.
RemTick ==
  /\ rem.ticks < MaxRemTicks
  /\ rem' = [rem EXCEPT !.now = @ + SecondMs, !.ticks = @ + 1]
  /\ UNCHANGED <<md, ai, db, cv, au, ctl, dm, ep>>

\* The platform posts a scheduled message that is due.
RemPlatformFire ==
  /\ \E m \in rem.scheduled :
       /\ m.postAt * SecondMs <= rem.now
       /\ rem' = RemFired([rem EXCEPT !.scheduled = @ \ {m}], m.id)
  /\ UNCHANGED <<md, ai, db, cv, au, ctl, dm, ep>>

\* The setTimeout callback of convo.js: the entry is removed once the
\* message has been posted.
RemTimerFire ==
  /\ \E t \in rem.timers, posted \in BOOLEAN :
       /\ t.dueAt <= rem.now
       /\ LET r == [rem EXCEPT !.timers = @ \ {t},
                                 !.activeReminders =
                                    IF posted THEN @ \ {t.id} ELSE @]
          IN rem' = IF posted THEN RemFired(r, t.id) ELSE r
  /\ UNCHANGED <<md, ai, db, cv, au, ctl, dm, ep>>

\* The ids a user can ask to delete: the ones handed out so far and the one
\* left over from an earlier run.
KnownIds(r) == 0 .. (r.nextId - 1)

\* handleDeleteReminderAction up to its first await after ack(). In part_004
\* scheduledMessageId, userId and channel are declared const and assigned
\* again inside the try block; a click without an id throws as well.
handleDeleteReminderAction(r, bodyShape) ==
  IF r.variant = "part_004"
  THEN RemNotify(r, "couldnt_delete", "catch")
  ELSE [r EXCEPT !.pc = "deleteScheduledMessage"]

\* "/reminder delete <id>": reminder.js calls deleteReminder; the command
\* handler of part_004 has no branch for it and answers nothing.
deleteReminder(r) ==
  IF r.variant = "part_004"
  THEN RemFinish(r, "no_response", FALSE)
  ELSE [r EXCEPT !.pc = "deleteScheduledMessage"]

\* The reminders that are in the scheduled state: held by the platform or
\* waiting on a timer of this process.
PendingIds(r) == ScheduledIds(r) \cup {t.id : t \in r.timers}

\* The delete sub-command or a click on the delete button of a reminder.
\* The module of convo.js has neither a delete branch nor a button handler:
\* "/reminder delete <id>" is parsed there like the text of a new reminder.
RemDelete ==
  /\ rem.pc = "idle"
  /\ rem.ops < MaxRemOps
  /\ \E id \in KnownIds(rem), via \in {"command", "button"},
        acked \in BOOLEAN, bodyShape \in BodyShapes,
        time \in ParseOutcomes :
       /\ (via = "command" \/ rem.variant = "reminder.js") => bodyShape = "actions"
       /\ rem.variant = "convo.js" => via = "command"
       /\ (rem.variant # "convo.js" \/ ~acked) => time = "null"
       /\ LET r == [rem EXCEPT !.ops = @ + 1, !.cur = [RemNoCall EXCEPT
                       !.op = "delete", !.id = id, !.via = via,
                       !.existed = id \in PendingIds(rem)]]
          IN rem' = IF ~acked
                    THEN \* ack() is outside the try block
                         RemFinish([r EXCEPT !.cur.platformFailed = TRUE],
                                   "no_response", TRUE)
                    ELSE IF rem.variant = "convo.js"
                    THEN [r EXCEPT !.pc = AfterParse(time), !.cur.parse = time]
                    ELSE IF via = "button"
                    THEN handleDeleteReminderAction(r, bodyShape)
                    ELSE deleteReminder(r)
  /\ UNCHANGED <<md, ai, db, cv, au, ctl, dm, ep>>

\* "/reminder" without text and "/reminder list". Every module answers empty
\* text with the usage note. reminder.js answers "list" with the list; the
\* command handler of part_004 has no branch for "list" and returns without
\* a word; convo.js parses the word like the text of a new reminder.
RemUsageOrList ==
  /\ rem.pc = "idle"
  /\ rem.ops < MaxRemOps
  /\ \E op \in {"empty", "list"}, time \in ParseOutcomes :
       /\ (op = "empty" \/ rem.variant # "convo.js") => time = "null"
       /\ LET r == [rem EXCEPT !.ops = @ + 1,
                               !.cur = [RemNoCall EXCEPT !.op = op,
                                                         !.via = "command"]]
          IN rem' = CASE op = "empty" -> RemNotify(r, "usage", "try")
                      [] rem.variant = "reminder.js" -> RemNotify(r, "listed", "try")
                      [] rem.variant = "part_004" -> RemFinish(r, "no_response", FALSE)
                      [] OTHER -> [r EXCEPT !.pc = AfterParse(time),
                                            !.cur.parse = time]
  /\ UNCHANGED <<md, ai, db, cv, au, ctl, dm, ep>>

\* chat.deleteScheduledMessage succeeds for a message the platform still
\* holds; the entry of activeReminders goes and the deletion is reported.
RemDeleteOk ==
  /\ rem.pc = "deleteScheduledMessage"
  /\ rem.cur.id \in ScheduledIds(rem)
  /\ rem' = RemNotify([rem EXCEPT !.scheduled = {m \in @ : m.id # rem.cur.id},
                                  !.activeReminders = @ \ {rem.cur.id},
                                  !.cur.existed = TRUE],
                      "deleted", "try")
  /\ UNCHANGED <<md, ai, db, cv, au, ctl, dm, ep>>

\* chat.deleteScheduledMessage fails: always for a message the platform no
\* longer holds, possibly for one it holds.
RemDeleteFail ==
  /\ rem.pc = "deleteScheduledMessage"
  /\ LET held == rem.cur.id \in ScheduledIds(rem)
     IN rem' = RemNotify([rem EXCEPT !.cur.existed = held,
                                     !.cur.platformFailed = held],
                         "couldnt_delete", "catch")
  /\ UNCHANGED <<md, ai, db, cv, au, ctl, dm, ep>>

\* The platform delivers the message for the user.
RemNotifyOk ==
  /\ rem.pc = "notify"
  /\ rem' = RemFinish(rem, rem.cur.pending, FALSE)
  /\ UNCHANGED <<md, ai, db, cv, au, ctl, dm, ep>>

\* The platform rejects the message for the user. From the try block the
\* error goes to the catch block, which sends the "couldn't delete" message;
\* a usage note or a list that is rejected goes to the catch block of the
\* command handler, except in part_004, whose usage note is sent outside
\* any try block;
\* from the catch block it goes to the caller: the command handler of
\* reminder.js sends its own apology, the button handler of reminder.js lets
\* it escape, the button handler of part_004 swallows it. A message of the
\* /reminder command that is rejected goes to the catch block of the command
\* handler, which sends its apology.
RemNotifyFail ==
  /\ rem.pc = "notify"
  /\ LET r == [rem EXCEPT !.cur.platformFailed = TRUE,
                          !.cur.replyFailed = TRUE]
     IN rem' =
          CASE rem.cur.parse # "none" /\ rem.cur.stage # "outer" ->
                 RemNotify(r, "handler_error", "outer")
            [] rem.cur.parse # "none" -> RemFinish(r, "no_response", TRUE)
            [] rem.cur.op \in {"empty", "list"} /\ rem.cur.stage # "outer"
               /\ ~(rem.variant = "part_004" /\ rem.cur.op = "empty") ->
                 RemNotify(r, "handler_error", "outer")
            [] rem.cur.op \in {"empty", "list"} -> RemFinish(r, "no_response", TRUE)
            [] rem.cur.stage = "try" -> RemNotify(r, "couldnt_delete", "catch")
            [] rem.cur.stage = "catch" /\ rem.variant = "part_004" ->
                 RemFinish(r, "no_response", FALSE)
            [] rem.cur.stage = "catch" /\ rem.cur.via = "command" ->
                 RemNotify(r, "handler_error", "outer")
            [] OTHER -> RemFinish(r, "no_response", TRUE)
  /\ UNCHANGED <<md, ai, db, cv, au, ctl, dm, ep>>

RemNext ==
  \/ RemCommand \/ RemSuggest
  \/ RemSchedule \/ RemScheduleOk \/ RemScheduleFail
  \/ RemTick \/ RemPlatformFire \/ RemTimerFire
  \/ RemDelete \/ RemDeleteOk \/ RemDeleteFail
  \/ RemUsageOrList
  \/ RemNotifyOk \/ RemNotifyFail

SpecReminder == RemInit /\ [][RemNext]_vars

\* C2: a call of scheduleReminder for a time before the current time fails
\* with an error, and a call for one second after the current time succeeds
\* (the platform not failing).
C2_RejectsPast ==
  \A i \in DOMAIN rem.log :
    LET e == rem.log[i]
    IN (e.op = "schedule" /\ ~e.nan) =>
         /\ e.delta < 0 => e.kind = "rejected_past"
         /\ (e.delta = SecondMs /\ ~e.platformFailed) => e.kind = "scheduled"

\* The deletions of one reminder, in the order they ended.
DeletionsOf(id) ==
  SelectSeq(rem.log, LAMBDA e : e.op = "delete" /\ e.id = id)

\* C3: of two deletions of one reminder that the platform held, the first
\* reports the deletion, the second ends with the "couldn't delete" message,
\* and none lets an exception escape (the platform not failing).
C3_DeleteTwice ==
  \A id \in KnownIds(rem) :
    LET ds == DeletionsOf(id)
    IN (/\ Len(ds) >= 1
        /\ ds[1].existed
        /\ \A i \in DOMAIN ds : ~ds[i].platformFailed) =>
         /\ ds[1].kind = "deleted" /\ ~ds[1].threw
         /\ Len(ds) >= 2 => (ds[2].kind = "couldnt_delete" /\ ~ds[2].threw)

\* ------------------------------------ commands/convo.js handleConvoCommand

\* let limit = 50
DefaultLimit == 50

\* parsedLimit <= 100
MaxLimit == 100

\* The characters of the command texts tried as the limit argument.
LimitAlphabet == {"0", "1", "5", "-", "x", SP}

LimitTexts == SeqsUpTo(LimitAlphabet, MaxLimitLen)

DigitValue(c) ==
  CASE c = "0" -> 0 [] c = "1" -> 1 [] c = "5" -> 5 [] OTHER -> 0 - 1

\* The value of the longest run of digits of s from position i on, in the
\* given radix, continuing from acc; seen tells whether a digit was read.
RECURSIVE ParseDigits(_, _, _, _, _)
ParseDigits(s, i, radix, acc, seen) ==
  IF i <= Len(s) /\ DigitValue(s[i]) >= 0
  THEN ParseDigits(s, i + 1, radix, acc * radix + DigitValue(s[i]), TRUE)
  ELSE [nan |-> ~seen, value |-> acc]

\* parseInt(string) without a radix: leading white space is skipped, a sign
\* is read, "0x" switches to radix 16, and the longest run of digits counts;
\* no digit at all gives NaN.
parseInt(text) ==
  LET start == RunLen(text, 1, Whitespace) + 1
      negative == start <= Len(text) /\ text[start] = "-"
      digits == IF negative THEN start + 1 ELSE start
      hex == StartsWithAt(text, digits, <<"0", "x">>)
      n == IF hex THEN ParseDigits(text, digits + 2, 16, 0, FALSE)
           ELSE ParseDigits(text, digits, 10, 0, FALSE)
  IN [nan |-> n.nan, value |-> IF negative THEN 0 - n.value ELSE n.value]

\* A handler that cuts a limit above 100 down to 100.
ConvoLimit_Clamp(text) ==
  LET parsedLimit == parseInt(text)
  IN IF text # <<>> /\ ~parsedLimit.nan /\ parsedLimit.value > 0
     THEN Min({parsedLimit.value, MaxLimit})
     ELSE DefaultLimit

\* let limit = 50; if (command.text) { parsedLimit = parseInt(command.text);
\* if (!isNaN(parsedLimit) && parsedLimit > 0 && parsedLimit <= 100)
\* limit = parsedLimit }
ConvoLimit(text) ==
  LET parsedLimit == parseInt(text)
  IN IF /\ text # <<>>
        /\ ~parsedLimit.nan
        /\ parsedLimit.value > 0
        /\ parsedLimit.value <= MaxLimit
     THEN parsedLimit.value
     ELSE DefaultLimit

\* The two handlers of convo.js: the first answers through respond() and
\* checks that it was given a client, the second acknowledges and answers
\* through say().
CvVariants == {"respond", "say"}

CvInit ==
  /\ cv \in [ variant : CvVariants, text : LimitTexts, client : BOOLEAN,
              pc : {"start"}, requests : {<<>>}, posts : {<<>>},
              pending : {"none"}, stage : {"try"}, threw : {FALSE},
              platformFailed : {FALSE} ]
  /\ md = "off" /\ ai = "off" /\ db = "off" /\ rem = "off" /\ au = "off"
  /\ ctl = "off" /\ dm = "off" /\ ep = "off"

CvSend(c, kind, stage) ==
  [c EXCEPT !.pc = "post", !.pending = kind, !.stage = stage]

\* client.conversations.history({ channel, limit }) is called, or cannot be.
CvFetchHistory(c) ==
  IF c.client
  THEN [c EXCEPT !.pc = "history", !.requests = Append(@, ConvoLimit(c.text))]
  ELSE IF c.variant = "respond"
  THEN CvSend(c, "no_history_access", "try")
  ELSE CvSend(c, "error", "catch")

\* The handler starts: ack() (second handler, outside the try block), then
\* the "Summarizing recent conversations" message.
CvBegin ==
  /\ cv.pc = "start"
  /\ \E acked \in BOOLEAN :
       /\ cv.variant = "respond" => acked
       /\ cv' = IF acked THEN CvSend(cv, "summarizing", "try")
                ELSE [cv EXCEPT !.pc = "done", !.threw = TRUE,
                                !.platformFailed = TRUE]
  /\ UNCHANGED <<md, ai, db, rem, au, ctl, dm, ep>>

\* The platform delivers the message in flight.
CvPostDelivered ==
  /\ cv.pc = "post"
  /\ LET c == [cv EXCEPT !.posts = Append(@, cv.pending), !.pending = "none"]
     IN cv' = IF cv.pending = "summarizing" THEN CvFetchHistory(c)
              ELSE [c EXCEPT !.pc = "done"]
  /\ UNCHANGED <<md, ai, db, rem, au, ctl, dm, ep>>

\* The platform rejects the message in flight: from the try block the error
\* message is sent, from the catch block the error leaves the handler.
CvPostFailed ==
  /\ cv.pc = "post"
  /\ cv' = IF cv.stage = "try"
           THEN CvSend([cv EXCEPT !.platformFailed = TRUE], "error", "catch")
           ELSE [cv EXCEPT !.pc = "done", !.pending = "none", !.threw = TRUE,
                           !.platformFailed = TRUE]
  /\ UNCHANGED <<md, ai, db, rem, au, ctl, dm, ep>>

\* conversations.history answers, with messages or without.
CvHistoryOk ==
  /\ cv.pc = "history"
  /\ \E empty \in BOOLEAN :
       cv' = IF empty THEN CvSend(cv, "no_messages", "try")
             ELSE [cv EXCEPT !.pc = "summary"]
  /\ UNCHANGED <<md, ai, db, rem, au, ctl, dm, ep>>

\* conversations.history fails: the first handler reports that it could not
\* access the history, the second goes to its catch block.
CvHistoryFail ==
  /\ cv.pc = "history"
  /\ cv' = IF cv.variant = "respond"
           THEN CvSend([cv EXCEPT !.platformFailed = TRUE],
                       "no_history_access", "try")
           ELSE CvSend([cv EXCEPT !.platformFailed = TRUE], "error", "catch")
  /\ UNCHANGED <<md, ai, db, rem, au, ctl, dm, ep>>

\* getAIResponse returns the summary, or throws where the health record of
\* the gateway was never created.
CvSummary ==
  /\ cv.pc = "summary"
  /\ \E returned \in BOOLEAN :
       cv' = IF returned THEN CvSend(cv, "summary", "try")
             ELSE CvSend(cv, "error", "catch")
  /\ UNCHANGED <<md, ai, db, rem, au, ctl, dm, ep>>

CvNext ==
  \/ CvBegin \/ CvPostDelivered \/ CvPostFailed
  \/ CvHistoryOk \/ CvHistoryFail \/ CvSummary

SpecConvo == CvInit /\ [][CvNext]_vars

\* C4 as stated: the channel history is fetched with the default limit 50
\* for a limit argument that is zero or negative, and with 100 for a limit
\* argument above 100.
C4_ClampsTo100 ==
  \A i \in DOMAIN cv.requests :
    LET parsedLimit == parseInt(cv.text)
    IN (cv.text # <<>> /\ ~parsedLimit.nan) =>
         /\ parsedLimit.value <= 0 => cv.requests[i] = DefaultLimit
         /\ parsedLimit.value > MaxLimit => cv.requests[i] = MaxLimit

\* C4: the channel history is fetched with the default limit 50 for a limit
\* argument that is zero or negative and also for one above 100; no request
\* asks for more than 100 messages.
C4_DefaultOutsideRange ==
  \A i \in DOMAIN cv.requests :
    LET parsedLimit == parseInt(cv.text)
    IN /\ cv.requests[i] >= 1 /\ cv.requests[i] <= MaxLimit
       /\ (cv.text # <<>> /\ ~parsedLimit.nan) =>
            /\ parsedLimit.value <= 0 => cv.requests[i] = DefaultLimit
            /\ parsedLimit.value > MaxLimit => cv.requests[i] = DefaultLimit

\* C4 witness: "/convo 150" fetched the history with limit 50 and went on
\* to post its summary.
C4_Witness ==
  /\ cv.text = <<"1", "5", "0">>
  /\ cv.requests = <<DefaultLimit>>
  /\ cv.pc = "done"
  /\ Last(cv.posts) = "summary"

\* --------------------------------------------- api/socket-controller.js

\* setTimeout(() => startWorker(), 5000)
RestartDelayMs == 5000

\* heartbeatAge > 120000
HeartbeatWindowMs == 120000

\* The time that passes in one step of the clock: more than the restart
\* delay, and two of them are more than the heartbeat window.
CtlStepMs == HeartbeatWindowMs \div 2 + RestartDelayMs

\* No worker, no heartbeat: the null of socketWorker and lastHeartbeat.
NoWorker == 0

NoHeartbeat == 0

NoCheck == [made |-> FALSE, stale |-> FALSE, restarted |-> FALSE]

\* The module is loaded: no worker, no heartbeat, workerRunning false.
CtlInit ==
  /\ ctl = [ workerRunning |-> FALSE, lastHeartbeat |-> NoHeartbeat,
             socketWorker |-> NoWorker, workers |-> <<>>, events |-> <<>>,
             timers |-> <<>>, now |-> RestartDelayMs, ticks |-> 0,
             requests |-> 0, lastCheck |-> NoCheck, last |-> "none",
             stopped |-> FALSE ]
  /\ md = "off" /\ ai = "off" /\ db = "off" /\ rem = "off" /\ cv = "off"
  /\ au = "off" /\ dm = "off" /\ ep = "off"

\* A worker thread that has ended; only what it replaced is remembered.
Dead(w) ==
  [w EXCEPT !.status = "dead", !.startedAt = 0, !.lastBeat = NoHeartbeat,
            !.via = "none"]

\* The worker threads that run.
RunningWorkers(c) ==
  {w \in DOMAIN c.workers : c.workers[w].status \in {"starting", "up"}}

\* startWorker(): nothing when workerRunning, else a new Worker whose
\* message, error and exit listeners belong to that worker. The caller is
\* remembered in via.
startWorker(c, replaces, via) ==
  IF c.workerRunning THEN c
  ELSE [c EXCEPT !.workerRunning = TRUE,
                 !.socketWorker = Len(c.workers) + 1,
                 !.workers = Append(@, [ status |-> "starting",
                                         startedAt |-> c.now,
                                         lastBeat |-> NoHeartbeat,
                                         replaces |-> replaces,
                                         via |-> via ])]

\* socketWorker.terminate(): the thread stops and its exit event, with
\* code 1, is delivered later.
Terminate(c) ==
  IF c.socketWorker # NoWorker /\ c.socketWorker \in RunningWorkers(c)
  THEN [c EXCEPT !.workers[c.socketWorker] = Dead(@),
                 !.events = Append(@, [type |-> "exit", worker |-> c.socketWorker,
                                       code |-> 1])]
  ELSE c

\* The running worker has sent no heartbeat for more than the window,
\* counted from its start when it has sent none.
WorkerStale(c) ==
  /\ c.socketWorker \in RunningWorkers(c)
  /\ LET w == c.workers[c.socketWorker]
         since == IF w.lastBeat = NoHeartbeat THEN w.startedAt ELSE w.lastBeat
     IN c.now - since > HeartbeatWindowMs

\* checkWorkerHealth()
checkWorkerHealth(c) ==
  IF c.lastHeartbeat = NoHeartbeat
  THEN IF c.workerRunning THEN c ELSE startWorker(c, NoWorker, "check")
  ELSE IF c.now - c.lastHeartbeat > HeartbeatWindowMs
  THEN startWorker([Terminate(c) EXCEPT !.workerRunning = FALSE], c.socketWorker,
                   "stale")
  ELSE c

\* GET: the health check.
CtlGet ==
  /\ ctl.requests < MaxOps
  /\ Len(ctl.workers) < MaxWorkers
  /\ LET c == checkWorkerHealth(ctl)
     IN ctl' = [c EXCEPT !.requests = @ + 1,
                         !.last = "GET",
                         !.lastCheck = [ made |-> TRUE,
                                         stale |-> WorkerStale(ctl),
                                         restarted |->
                                           /\ ctl.socketWorker \notin RunningWorkers(c)
                                           /\ c.socketWorker # ctl.socketWorker ]]
  /\ UNCHANGED <<md, ai, db, rem, cv, au, dm, ep>>

\* POST with action start, stop or restart.
CtlPost ==
  /\ ctl.requests < MaxOps
  /\ Len(ctl.workers) < MaxWorkers
  /\ \E action \in {"start", "stop", "restart"} :
       LET c == [ctl EXCEPT !.requests = @ + 1, !.last = "POST",
                            !.stopped = IF action = "stop" THEN @ ELSE FALSE]
       IN ctl' =
            CASE action = "start" -> startWorker(c, NoWorker, "start")
              [] action = "stop" ->
                   \* the worker answers the stop message with process.exit(0)
                   \* once its own listener is installed
                   IF /\ c.workerRunning /\ c.socketWorker # NoWorker
                      /\ c.socketWorker \in RunningWorkers(c)
                      /\ c.workers[c.socketWorker].status = "up"
                   THEN [c EXCEPT !.workers[c.socketWorker] = Dead(@),
                                  !.stopped = TRUE,
                                  !.events = Append(@, [type |-> "exit",
                                                        worker |-> c.socketWorker,
                                                        code |-> 0])]
                   ELSE c
              [] OTHER ->
                   startWorker([(IF c.workerRunning THEN Terminate(c) ELSE c)
                                  EXCEPT !.workerRunning = FALSE],
                               c.socketWorker, "restart")
  /\ UNCHANGED <<md, ai, db, rem, cv, au, dm, ep>>

\* await app.start() resolves in the worker: the heartbeat interval and the
\* stop listener are installed.
CtlWorkerUp ==
  /\ \E w \in DOMAIN ctl.workers :
       /\ ctl.workers[w].status = "starting"
       /\ ctl' = [ctl EXCEPT !.workers[w].status = "up"]
  /\ UNCHANGED <<md, ai, db, rem, cv, au, dm, ep>>

\* The heartbeat interval of a worker fires and the controller's message
\* listener for that worker takes the timestamp.
CtlHeartbeat ==
  /\ \E w \in DOMAIN ctl.workers :
       /\ ctl.workers[w].status = "up"
       /\ ctl.workers[w].lastBeat # ctl.now
       /\ ctl' = [ctl EXCEPT !.workers[w].lastBeat = ctl.now,
                             !.lastHeartbeat = ctl.now]
  /\ UNCHANGED <<md, ai, db, rem, cv, au, dm, ep>>

\* A worker thread dies of an uncaught error: its error event and its exit
\* event, with code 1, are on their way.
CtlCrash ==
  /\ \E w \in RunningWorkers(ctl) :
       ctl' = [ctl EXCEPT !.workers[w] = Dead(@),
                          !.events = @ \o <<[type |-> "error", worker |-> w, code |-> 1],
                                            [type |-> "exit", worker |-> w, code |-> 1]>>]
  /\ UNCHANGED <<md, ai, db, rem, cv, au, dm, ep>>

\* The error or the exit listener runs: workerRunning = false and, except
\* for exit code 0, a timer that will call startWorker().
CtlDeliver ==
  /\ ctl.events # <<>>
  /\ LET e == Head(ctl.events)
     IN ctl' = [ctl EXCEPT !.events = Tail(@),
                           !.workerRunning = FALSE,
                           !.timers = IF e.type = "error" \/ e.code # 0
                                      THEN Append(@, [due |-> ctl.now + RestartDelayMs,
                                                      worker |-> e.worker])
                                      ELSE @]
  /\ UNCHANGED <<md, ai, db, rem, cv, au, dm, ep>>

\* A restart timer that is due fires.
CtlTimer ==
  /\ Len(ctl.workers) < MaxWorkers
  /\ \E i \in DOMAIN ctl.timers :
       /\ ctl.timers[i].due <= ctl.now
       /\ \A j \in DOMAIN ctl.timers : ctl.timers[j].due >= ctl.timers[i].due
       /\ ctl' = startWorker(
                   [ctl EXCEPT !.timers = SubSeq(@, 1, i - 1) \o
                                          SubSeq(@, i + 1, Len(@))],
                   ctl.timers[i].worker, "timer")
  /\ UNCHANGED <<md, ai, db, rem, cv, au, dm, ep>>

\* Time passes.
CtlTick ==
  /\ ctl.ticks < MaxTicks
  /\ ctl' = [ctl EXCEPT !.now = @ + CtlStepMs, !.ticks = @ + 1]
  /\ UNCHANGED <<md, ai, db, rem, cv, au, dm, ep>>

CtlNext ==
  \/ CtlGet \/ CtlPost \/ CtlWorkerUp \/ CtlHeartbeat \/ CtlCrash
  \/ CtlDeliver \/ CtlTimer \/ CtlTick

SpecController == CtlInit /\ [][CtlNext]_vars

\* C11: a worker that ended with a non-zero exit code or an error gets
\* exactly one replacement: no worker is replaced twice and no two workers
\* run at the same time.
C11_OneReplacement ==
  /\ \A w \in DOMAIN ctl.workers :
       Cardinality({v \in DOMAIN ctl.workers : ctl.workers[v].replaces = w}) <= 1
  /\ Cardinality(RunningWorkers(ctl)) <= 1

\* C12: a health check made while the running worker had sent no heartbeat
\* for more than 120 seconds (counted from its start when it has sent none)
\* terminated that worker and started a replacement.
C12_StaleRestarted ==
  (ctl.lastCheck.made /\ ctl.lastCheck.stale) => ctl.lastCheck.restarted

\* ----------------------- commands/draft.js handleDirectMessage, handleAppMention

\* The two message modules of draft.js: the first keeps the Set
\* processingMessages and removes an entry when the reply is out, the second
\* keeps the Map messageTracker and removes an entry 5 seconds later.
DmVariants == {"processingMessages", "messageTracker"}

\* Invocations that may overlap, and the message timestamps they carry.
Invocations == {"i1", "i2"}

Timestamps == {"ts1", "ts2"}

InvIdle ==
  [ pc |-> "idle", handler |-> "none", ts |-> "none", witty |-> FALSE,
    thinking |-> FALSE, skipped |-> FALSE, llmCalls |-> 0, replies |-> 0,
    threw |-> FALSE, answer |-> "none", updateFailed |-> FALSE,
    cause |-> "none" ]

DmInit ==
  /\ dm \in [ variant : DmVariants, tracker : {{}}, timers : {{}},
              started : {0}, inv : {[i \in Invocations |-> InvIdle]} ]
  /\ md = "off" /\ ai = "off" /\ db = "off" /\ rem = "off" /\ cv = "off"
  /\ au = "off" /\ ctl = "off" /\ ep = "off"

\* A handler that never finds the message in its tracker.
Tracked_Never(d, ts) == FALSE

\* processingMessages.has(messageId), messageTracker.has(message.ts)
Tracked(d, ts) == ts \in d.tracker

\* The invocation is between its entry in the tracker and its return.
InFlight(r) == r.pc \notin {"idle", "done"}

\* The handler is entered: an event without ts or text, or one whose ts is
\* in the tracker, is dropped; else the ts is put in the tracker, in the
\* same synchronous block.
DmInvoke ==
  /\ dm.started < MaxOps
  /\ \E i \in Invocations, handler \in {"direct", "mention"},
        ts \in Timestamps, valid \in BOOLEAN, witty \in BOOLEAN :
       /\ dm.inv[i].pc \in {"idle", "done"}
       /\ witty => handler = "mention"
       /\ LET r == [InvIdle EXCEPT !.handler = handler, !.ts = ts, !.witty = witty]
          IN dm' = IF ~valid \/ Tracked(dm, ts)
                   THEN [dm EXCEPT !.started = @ + 1,
                                   !.inv[i] = [r EXCEPT !.pc = "done", !.skipped = TRUE]]
                   ELSE [dm EXCEPT !.started = @ + 1,
                                   !.tracker = @ \cup {ts},
                                   !.inv[i] = [r EXCEPT !.pc = "thinking"]]
  /\ UNCHANGED <<md, ai, db, rem, cv, au, ctl, ep>>

\* The '_Thinking..._' placeholder: the first module goes on without it when
\* it cannot be posted, the second goes to its catch block. A mention that
\* asks "is there anything you can't do" gets a canned answer, everything
\* else is sent to getAIResponse.
DmThinking ==
  /\ \E i \in Invocations, posted \in BOOLEAN :
       LET r == dm.inv[i]
       IN /\ r.pc = "thinking"
          /\ dm' = [dm EXCEPT !.inv[i] =
                      IF ~posted /\ dm.variant = "messageTracker"
                      THEN [r EXCEPT !.pc = "error", !.cause = "thinking"]
                      ELSE IF r.handler = "mention" /\ r.witty
                      THEN [r EXCEPT !.thinking = posted,
                                     !.pc = IF posted THEN "update" ELSE "resend"]
                      ELSE [r EXCEPT !.thinking = posted, !.pc = "llm",
                                     !.llmCalls = @ + 1]]
  /\ UNCHANGED <<md, ai, db, rem, cv, au, ctl, ep>>

\* getAIResponse returns, or throws.
DmLlm ==
  /\ \E i \in Invocations, returned \in BOOLEAN :
       LET r == dm.inv[i]
       IN /\ r.pc = "llm"
          /\ dm' = [dm EXCEPT !.inv[i] =
                      IF ~returned THEN [r EXCEPT !.pc = "error", !.cause = "llm"]
                      ELSE [r EXCEPT !.pc = IF r.thinking THEN "update"
                                            ELSE "resend"]]
  /\ UNCHANGED <<md, ai, db, rem, cv, au, ctl, ep>>

\* The reply is out: the first module deletes the entry, the second arms a
\* timer that will.
DmFinish(d, i) ==
  LET r == [d.inv[i] EXCEPT !.pc = "done", !.replies = @ + 1,
                            !.answer = IF d.inv[i].pc = "update" THEN "update"
                                       ELSE "post"]
  IN IF d.variant = "processingMessages"
     THEN [d EXCEPT !.inv[i] = r, !.tracker = @ \ {r.ts}]
     ELSE [d EXCEPT !.inv[i] = r, !.timers = @ \cup {r.ts}]

\* chat.update of the placeholder, then a fresh message when that fails,
\* then the catch block when that fails too.
DmReply ==
  /\ \E i \in Invocations, delivered \in BOOLEAN :
       LET r == dm.inv[i]
       IN /\ r.pc \in {"update", "resend"}
          /\ dm' = IF delivered THEN DmFinish(dm, i)
                   ELSE [dm EXCEPT !.inv[i] =
                           IF r.pc = "update"
                           THEN [r EXCEPT !.pc = "resend", !.updateFailed = TRUE]
                           ELSE [r EXCEPT !.pc = "error", !.cause = "post"]]
  /\ UNCHANGED <<md, ai, db, rem, cv, au, ctl, ep>>

\* The catch block sends the apology. The first module swallows a failure to
\* send it and leaves the entry; the second deletes the entry after the
\* apology and lets a failure to send it escape.
DmError ==
  /\ \E i \in Invocations, delivered \in BOOLEAN :
       LET r == dm.inv[i]
       IN /\ r.pc = "error"
          /\ dm' = IF dm.variant = "processingMessages"
                   THEN [dm EXCEPT !.inv[i].pc = "done"]
                   ELSE IF delivered
                   THEN [dm EXCEPT !.inv[i].pc = "done", !.tracker = @ \ {r.ts}]
                   ELSE [dm EXCEPT !.inv[i].pc = "done", !.inv[i].threw = TRUE]
  /\ UNCHANGED <<md, ai, db, rem, cv, au, ctl, ep>>

\* setTimeout(() => messageTracker.delete(ts), 5000) fires.
DmTimer ==
  /\ \E ts \in dm.timers :
       dm' = [dm EXCEPT !.timers = @ \ {ts}, !.tracker = @ \ {ts}]
  /\ UNCHANGED <<md, ai, db, rem, cv, au, ctl, ep>>

DmNext ==
  \/ DmInvoke \/ DmThinking \/ DmLlm \/ DmReply \/ DmError \/ DmTimer

SpecMessages == DmInit /\ [][DmNext]_vars

\* C13: two invocations of handleDirectMessage or handleAppMention are never
\* in flight for the same message timestamp, so while the first is in
\* flight no second one calls the language model or sends a reply for it.
C13_OneInFlight ==
  \A i, j \in Invocations :
    (i # j /\ InFlight(dm.inv[i]) /\ InFlight(dm.inv[j])) =>
      dm.inv[i].ts # dm.inv[j].ts

\* C13 witness: while one invocation waits for the language model, a second
\* one for the same timestamp has returned without a call or a reply.
C13_Witness ==
  \E i, j \in Invocations :
    /\ dm.inv[i].pc = "llm"
    /\ dm.inv[j].pc = "done" /\ dm.inv[j].skipped
    /\ dm.inv[j].ts = dm.inv[i].ts
    /\ dm.inv[j].llmCalls = 0 /\ dm.inv[j].replies = 0

\* C14: while /reminder handles a parse reply without a JSON object, with
\* malformed JSON or without a time, no scheduling call is made, no timer is
\* armed and nothing is added to activeReminders; the handler ends with the
\* suggestions message (the platform accepting it).
C14_ParseFailedSchedulesNothing ==
  /\ [][(rem.cur.op = "schedule" /\ rem.cur.parse = "null") =>
          /\ rem'.pc \notin {"parsed", "scheduleMessage"}
          /\ rem'.activeReminders \subseteq rem.activeReminders
          /\ rem'.timers \subseteq rem.timers
          /\ rem'.scheduled \subseteq rem.scheduled
          /\ rem'.nextId = rem.nextId]_vars
  /\ [](\A i \in DOMAIN rem.log :
          LET e == rem.log[i]
          IN (e.op = "schedule" /\ e.parse = "null" /\ ~e.platformFailed) =>
               (e.kind = "suggestions" /\ ~e.threw))

\* C14 witness: a /reminder whose parse reply gave no time has ended with
\* the suggestions message and no reminder exists.
C14_Witness ==
  /\ rem.pc = "idle"
  /\ rem.variant = "convo.js"
  /\ Len(rem.log) = 1
  /\ rem.log[1].parse = "null" /\ rem.log[1].kind = "suggestions"
  /\ rem.activeReminders = {} /\ rem.timers = {} /\ rem.nextId = 1

\* C15 (the record holding the last two events, the deletion and the posting
\* meet in it when nothing else happens in between): once a delete request (sub-command or button) for a reminder in the
\* scheduled state has been handled, the platform accepting every call, that
\* reminder is no longer pending: its timer or platform schedule is gone, and
\* its message is never posted afterwards.
C15_DeletedNeverFires ==
  \A i \in DOMAIN rem.log :
    LET e == rem.log[i]
    IN (e.op = "delete" /\ e.existed /\ ~e.platformFailed) =>
         /\ e.id \notin PendingIds(rem)
         /\ \A j \in DOMAIN rem.log :
              (j > i /\ rem.log[j].op = "fire") => rem.log[j].id # e.id

\* C16: a failed schedule call of the platform leaves activeReminders (and
\* the schedules of the platform) as they were, and the /reminder handler
\* ends normally with the "couldn't set your reminder" message, which quotes
\* the message of the platform's error (the platform accepting the messages
\* of the handler).
C16_ScheduleFailureReported ==
  /\ [][(rem.pc = "scheduleMessage" /\ rem'.cur.detail # <<>>) =>
          /\ rem'.activeReminders = rem.activeReminders
          /\ rem'.scheduled = rem.scheduled
          /\ rem'.nextId = rem.nextId]_vars
  /\ [](\A i \in DOMAIN rem.log :
          LET e == rem.log[i]
          IN (e.detail # <<>> /\ ~e.replyFailed) =>
               /\ e.kind = "failed_schedule" /\ ~e.threw
               /\ \E k \in DOMAIN e.detail : e.detail[k] \in PlatformErrors)

C16_Witness ==
  /\ rem.variant = "reminder.js" /\ rem.pc = "idle"
  /\ \E i \in DOMAIN rem.log :
       /\ rem.log[i].op = "schedule" /\ rem.log[i].kind = "failed_schedule"
       /\ rem.log[i].detail = ScheduleError("channel_not_found")
       /\ ~rem.log[i].replyFailed /\ ~rem.log[i].threw
  /\ rem.activeReminders = {}

\* ---------------- canned replies: part_002 and socket-worker.js app.message,
\* ---------------- draft.js handleAppMention

\* Words of a message after the opening.
MaxWords == 2

\* The handlers that test patterns before they ask the language model.
PtHandlers == {"part_002", "socket-worker.js", "draft.js"}

\* A mention of the bot, as the platform writes it into the text.
Mention == "<@U1>"

\* The words messages are made of; consecutive words are separated by one
\* space, the word NL stands for a line break between its neighbours.
Words == {"what", "is", "you", "your", "can't", "cannot", "do", "purpose",
          "x", NL}

\* How a message can begin.
Openings ==
  {<<>>, <<Mention>>, <<"What">>, <<"Is", "there", "anything", "you">>}

PtTexts == {o \o w : o \in Openings, w \in SeqsUpTo(Words, MaxWords)}

\* String.prototype.toLowerCase, word by word.
LowerWords(ws) ==
  [i \in DOMAIN ws |-> CASE ws[i] = "What" -> "what"
                          [] ws[i] = "Is" -> "is"
                          [] OTHER -> ws[i]]

\* text.replace(/<@[A-Z0-9]+>/g, ''), and the replace of the bot's own
\* mention in draft.js.
StripMentions(ws) == SelectSeq(ws, LAMBDA w : w # Mention)

\* The literals of the patterns that occur in a (lower-case) word as a
\* substring.
Literals(w) ==
  CASE w = "your" -> {"you", "your"}
    [] w = "cannot" -> {"not"}
    [] w \in {"there", "x", NL, Mention} -> {}
    [] OTHER -> {w}

\* /l1.*l2.*l3/: the literals occur in this order; "." does not match a line
\* break, so from the first literal on all are in one line.
RECURSIVE MatchFrom(_, _, _, _)
MatchFrom(ws, lits, from, inLine) ==
  IF lits = <<>> THEN TRUE
  ELSE \E i \in from .. Len(ws) :
         /\ Head(lits) \in Literals(ws[i])
         /\ inLine => \A k \in from .. (i - 1) : ws[k] # NL
         /\ MatchFrom(ws, Tail(lits), i + 1, TRUE)

\* RegExp.prototype.test for a pattern given by its alternatives.
Test(alternatives, ws) == \E a \in alternatives : MatchFrom(ws, a, 1, FALSE)

\* /what.*objective|what.*purpose|what.*do.*you.*do|what.*are.*you.*for|what.*your.*job/
PurposePattern ==
  { <<"what", "objective">>, <<"what", "purpose">>,
    <<"what", "do", "you", "do">>, <<"what", "are", "you", "for">>,
    <<"what", "your", "job">> }

\* /what.*can't.*do|what.*cant.*do|what.*not.*able.*do|what.*limitations|is.*anything.*can't.*do/
CantPattern ==
  { <<"what", "can't", "do">>, <<"what", "cant", "do">>,
    <<"what", "not", "able", "do">>, <<"what", "limitations">>,
    <<"is", "anything", "can't", "do">> }

\* /is there anything you (can('t|not)|cannot) do/i: the words follow each
\* other separated by single spaces, in any case.
canDoPattern(ws) ==
  \E i \in 1 .. (Len(ws) - 5) :
    /\ LowerWords(SubSeq(ws, i, i + 3)) = <<"is", "there", "anything", "you">>
    /\ ws[i + 4] \in {"can't", "cannot"}
    /\ ws[i + 5] = "do"

\* The text the patterns of a handler are tested on.
userMessage(h, text) ==
  IF h = "draft.js" THEN StripMentions(text)
  ELSE LowerWords(StripMentions(text))

\* The names of the patterns a handler tests, in the order of its if
\* statements.
PatternOrder(h) ==
  CASE h = "part_002" -> <<"purpose", "cant">>
    [] h = "socket-worker.js" -> <<"cant">>
    [] OTHER -> <<"canDo">>

Matches(name, ws) ==
  CASE name = "purpose" -> Test(PurposePattern, ws)
    [] name = "cant" -> Test(CantPattern, ws)
    [] OTHER -> canDoPattern(ws)

FirstMatch_None(h, text) == 0

\* The position in PatternOrder of the first pattern that matches, 0 when
\* none does.
FirstMatch(h, text) ==
  LET hits == {i \in DOMAIN PatternOrder(h) :
                 Matches(PatternOrder(h)[i], userMessage(h, text))}
  IN IF hits = {} THEN 0 ELSE Min(hits)

PtInit ==
  /\ dm \in [ handler : PtHandlers, text : PtTexts, pc : {"start"},
               tested : {<<>>}, canned : {"none"}, llmCalls : {0},
               sent : {<<>>}, platformFailed : {FALSE} ]
  /\ md = "off" /\ ai = "off" /\ db = "off" /\ rem = "off" /\ cv = "off"
  /\ au = "off" /\ ctl = "off" /\ ep = "off"

\* handleAppMention posts the "_Thinking..._" placeholder before it looks at
\* the text; without a text it returns at once. A rejected placeholder is
\* logged and ignored by the first copy and caught by the second.
PtThinking ==
  /\ dm.pc = "start" /\ dm.handler = "draft.js"
  /\ \E posted \in BOOLEAN, tolerant \in BOOLEAN :
       dm' = IF dm.text = <<>> THEN [dm EXCEPT !.pc = "done"]
             ELSE IF posted
             THEN [dm EXCEPT !.pc = "thought", !.sent = Append(@, "thinking")]
             ELSE [dm EXCEPT !.pc = IF tolerant THEN "thought" ELSE "catch",
                             !.platformFailed = TRUE]
  /\ UNCHANGED <<md, ai, db, rem, cv, au, ctl, ep>>

\* The if statements with the patterns, in their order.
PtTest ==
  /\ dm.pc = IF dm.handler = "draft.js" THEN "thought" ELSE "start"
  /\ LET hit == FirstMatch(dm.handler, dm.text)
         order == PatternOrder(dm.handler)
     IN dm' = IF hit = 0
              THEN [dm EXCEPT !.tested = order,
                              !.pc = IF dm.handler = "part_002"
                                     THEN "ephemeral" ELSE "llm"]
              ELSE [dm EXCEPT !.tested = SubSeq(order, 1, hit),
                              !.canned = order[hit], !.pc = "canned"]
  /\ UNCHANGED <<md, ai, db, rem, cv, au, ctl, ep>>

\* part_002: chat.postEphemeral "Thinking..." before the request.
PtEphemeral ==
  /\ dm.pc = "ephemeral"
  /\ \E posted \in BOOLEAN :
       dm' = IF posted
             THEN [dm EXCEPT !.pc = "llm", !.sent = Append(@, "thinking")]
             ELSE [dm EXCEPT !.pc = "catch", !.platformFailed = TRUE]
  /\ UNCHANGED <<md, ai, db, rem, cv, au, ctl, ep>>

\* getAIResponse(userMessage) / generateAIResponse(userMessage)
PtLlm ==
  /\ dm.pc = "llm"
  /\ dm' = [dm EXCEPT !.llmCalls = @ + 1, !.pc = "reply"]
  /\ UNCHANGED <<md, ai, db, rem, cv, au, ctl, ep>>

\* The canned reply or the reply of the language model is posted.
PtSend ==
  /\ dm.pc \in {"canned", "reply"}
  /\ \E posted \in BOOLEAN :
       dm' = IF posted
             THEN [dm EXCEPT !.pc = "done",
                             !.sent = Append(@, IF dm.pc = "canned"
                                                THEN dm.canned ELSE "llm")]
             ELSE [dm EXCEPT !.pc = "catch", !.platformFailed = TRUE]
  /\ UNCHANGED <<md, ai, db, rem, cv, au, ctl, ep>>

\* The catch block posts an apology.
PtCatch ==
  /\ dm.pc = "catch"
  /\ \E posted \in BOOLEAN :
       dm' = [dm EXCEPT !.pc = "done",
                        !.sent = IF posted THEN Append(@, "error") ELSE @]
  /\ UNCHANGED <<md, ai, db, rem, cv, au, ctl, ep>>

PtNext == PtThinking \/ PtTest \/ PtEphemeral \/ PtLlm \/ PtSend \/ PtCatch

SpecPatterns == PtInit /\ [][PtNext]_vars

MaxRequests == 2

\* The modules that register the listeners. slack-events.js and part_003
\* are the HTTP endpoint, part_002 is the long-running app.
EpEntries == {"slack-events.js", "part_003", "part_002"}

HttpEndpoints == {"slack-events.js", "part_003"}

Commands == {"/describe", "/audit", "/draft", "/reminder", "/task", "/convo"}

\* The listeners an entry registers that call into the command handlers
\* module.
EpKinds(entry) ==
  IF entry = "part_002" THEN {"/reminder", "/task", "/convo", "delete_reminder"}
  ELSE Commands \cup {"message", "delete_reminder"}

Loaded_NoFallback(ok) == IF ok THEN "module" ELSE "throws"

\* let x = <stand-in>; try { x = require(...) } catch (error) { log }
Loaded(ok) == IF ok THEN "module" ELSE "standin"

\* The handlers of the repository for one listener: whether the handler
\* calls ack() itself (its first statement) and what it sends its messages
\* with.
HandlerStyles(kind) ==
  CASE kind = "/describe" -> {[acks |-> TRUE, via |-> "say"],
                             [acks |-> TRUE, via |-> "respond"],
                             [acks |-> FALSE, via |-> "respond"]}
    [] kind = "/audit" -> {[acks |-> TRUE, via |-> "respond"],
                           [acks |-> TRUE, via |-> "say"],
                           [acks |-> FALSE, via |-> "respond"]}
    [] kind = "/draft" -> {[acks |-> TRUE, via |-> "say"]}
    [] kind = "/reminder" -> {[acks |-> TRUE, via |-> "say"],
                              [acks |-> FALSE, via |-> "respond"]}
    [] kind = "/task" -> {[acks |-> FALSE, via |-> "respond"]}
    [] kind = "/convo" -> {[acks |-> TRUE, via |-> "say"],
                           [acks |-> FALSE, via |-> "respond"]}
    [] kind = "delete_reminder" -> {[acks |-> TRUE, via |-> "respond"],
                                    [acks |-> FALSE, via |-> "client"]}
    [] OTHER -> {[acks |-> FALSE, via |-> "client"],
                 [acks |-> FALSE, via |-> "say"]}

\* async () => ({ text: "Command handler temporarily unavailable" })
StandIn == [acks |-> FALSE, via |-> "none"]

\* What the listener hands to the handler: "ack" is the acknowledgement
\* function of the platform, "ack_noop" is () => {}.
Passed(entry, kind) ==
  CASE entry = "part_002" /\ kind = "delete_reminder" ->
         {"ack", "respond", "client"}
    [] entry = "part_002" -> {"ack", "say", "client"}
    [] kind = "message" /\ entry = "slack-events.js" -> {"client", "say"}
    [] kind = "message" -> {"client"}
    [] kind = "delete_reminder" /\ entry = "slack-events.js" ->
         {"ack_noop", "client"}
    [] kind = "delete_reminder" -> {"client"}
    [] entry = "part_003" /\ kind \in {"/describe", "/reminder"} ->
         {"client", "respond"}
    [] OTHER -> {"ack_noop", "respond"}

\* The listeners of the HTTP endpoint call ack() themselves before the
\* handler; message events have no ack.
WrapperAcks(entry, kind) == entry \in HttpEndpoints /\ kind # "message"

NoRequest ==
  [ kind |-> "none", style |-> StandIn, platformOk |-> TRUE, pc |-> "none",
    events |-> <<>>, threw |-> FALSE ]

EpInit ==
  /\ ep \in [ entry : EpEntries, pc : {"cold"},
               aiUtils : {"unset"}, dbManager : {"unset"},
               commandHandlers : {"unset"}, count : {0}, req : {NoRequest} ]
  /\ md = "off" /\ ai = "off" /\ db = "off" /\ rem = "off" /\ cv = "off"
  /\ au = "off" /\ ctl = "off" /\ dm = "off"

\* The module is evaluated: the three require calls, each of which may
\* throw. part_002 requires its modules without a try block.
EpColdStart ==
  /\ ep.pc = "cold"
  /\ \E aiOk \in BOOLEAN, dbOk \in BOOLEAN, cmdOk \in BOOLEAN :
       LET a == IF ep.entry \in HttpEndpoints THEN Loaded(aiOk)
                ELSE Loaded_NoFallback(aiOk)
           d == IF ep.entry \in HttpEndpoints THEN Loaded(dbOk) ELSE "module"
           c == IF ep.entry \in HttpEndpoints THEN Loaded(cmdOk)
                ELSE Loaded_NoFallback(cmdOk)
       IN ep' = [ep EXCEPT !.aiUtils = a, !.dbManager = d,
                           !.commandHandlers = c,
                           !.pc = IF "throws" \in {a, d, c}
                                  THEN "crashed" ELSE "ready"]
  /\ UNCHANGED <<md, ai, db, rem, cv, au, ctl, dm>>

\* A command, a message event or a button click reaches its listener.
EpRequest ==
  /\ ep.pc = "ready" /\ ep.req.pc \in {"none", "done"}
  /\ ep.count < MaxRequests
  /\ \E kind \in EpKinds(ep.entry), platformOk \in BOOLEAN :
     \E style \in HandlerStyles(kind) \cup {StandIn} :
       /\ (style = StandIn) <=> (ep.commandHandlers = "standin")
       /\ ep' = [ep EXCEPT !.count = @ + 1,
                           !.req = [NoRequest EXCEPT
                                      !.kind = kind, !.style = style,
                                      !.platformOk = platformOk,
                                      !.pc = IF WrapperAcks(ep.entry, kind)
                                             THEN "ack" ELSE "handler"]]
  /\ UNCHANGED <<md, ai, db, rem, cv, au, ctl, dm>>

\* await ack() of the listener, outside its try block.
EpAck ==
  /\ ep.req.pc = "ack"
  /\ ep' = IF ep.req.platformOk
           THEN [ep EXCEPT !.req.events = Append(@, "ack"),
                           !.req.pc = "handler"]
           ELSE [ep EXCEPT !.req.threw = TRUE, !.req.pc = "done"]
  /\ UNCHANGED <<md, ai, db, rem, cv, au, ctl, dm>>

\* The handler: ack() if it acknowledges itself, then its messages; calling
\* a function it was not handed is a TypeError, which inside the try block
\* goes to the catch block, where the same call fails again.
runHandler(style, passed, platformOk) ==
  LET acked == IF style.acks /\ "ack" \in passed THEN <<"ack">> ELSE <<>>
  IN CASE style = StandIn -> [events |-> <<>>, threw |-> FALSE]
       [] style.acks /\ {"ack", "ack_noop"} \cap passed = {} ->
            [events |-> <<>>, threw |-> TRUE]
       [] style.acks /\ "ack" \in passed /\ ~platformOk ->
            [events |-> <<>>, threw |-> TRUE]
       [] style.via \notin passed \/ ~platformOk ->
            [events |-> acked, threw |-> TRUE]
       [] OTHER -> [events |-> acked \o <<"message">>, threw |-> FALSE]

EpHandler ==
  /\ ep.req.pc = "handler"
  /\ LET out == runHandler(ep.req.style, Passed(ep.entry, ep.req.kind),
                           ep.req.platformOk)
     IN ep' = [ep EXCEPT !.req.events = @ \o out.events,
                         !.req.pc = IF out.threw THEN "catch" ELSE "done"]
  /\ UNCHANGED <<md, ai, db, rem, cv, au, ctl, dm>>

\* The catch block of the listener sends an apology; part_003 wraps that
\* call for messages and button clicks in a try block of its own.
EpCatch ==
  /\ ep.req.pc = "catch"
  /\ ep' = IF ep.req.platformOk
           THEN [ep EXCEPT !.req.events = Append(@, "message"),
                           !.req.pc = "done"]
           ELSE [ep EXCEPT !.req.pc = "done",
                           !.req.threw =
                              ~(ep.entry = "part_003"
                                /\ ep.req.kind \notin Commands)]
  /\ UNCHANGED <<md, ai, db, rem, cv, au, ctl, dm>>

EpNext == EpColdStart \/ EpRequest \/ EpAck \/ EpHandler \/ EpCatch

SpecEndpoint == EpInit /\ [][EpNext]_vars

\* C18: in the HTTP endpoint a module that fails to load is replaced by its
\* stand-in and the cold start completes; afterwards every request is
\* handled without an exception leaving its listener, and with the stand-in
\* handlers a request is acknowledged and nothing else happens (the
\* platform accepting the calls of the listener).
C18_StandInsKeepEndpointUp ==
  ep.entry \in HttpEndpoints =>
    /\ ep.pc # "crashed"
    /\ ep.pc = "ready" =>
         {ep.aiUtils, ep.dbManager, ep.commandHandlers}
            \subseteq {"module", "standin"}
    /\ ("standin" \in {ep.aiUtils, ep.dbManager, ep.commandHandlers}
          /\ ep.req.pc = "done" /\ ep.req.platformOk) => ~ep.req.threw
    /\ (ep.commandHandlers = "standin" /\ ep.req.pc = "done"
          /\ ep.req.platformOk) =>
         ep.req.events = IF ep.req.kind = "message" THEN <<>> ELSE <<"ack">>

C18_Witness ==
  /\ ep.entry = "part_003" /\ ep.pc = "ready"
  /\ ep.commandHandlers = "standin" /\ ep.aiUtils = "standin"
  /\ ep.dbManager = "standin"
  /\ ep.req.kind = "delete_reminder" /\ ep.req.pc = "done"
  /\ ep.req.events = <<"ack">> /\ ~ep.req.threw /\ ep.count = MaxRequests

\* C19: a slash command that has been handled, the platform accepting every
\* call, was acknowledged exactly once, and the acknowledgement came before
\* every message.
C19_AckOnceFirst ==
  (ep.req.kind \in Commands /\ ep.req.pc = "done" /\ ep.req.platformOk) =>
    /\ Len(SelectSeq(ep.req.events, LAMBDA e : e = "ack")) = 1
    /\ ep.req.events[1] = "ack"

\* --------- commands/audit.js handleAuditCommand: the audit of flagged issues
\* --------- (first copy, lines 21-157, and last copy, lines 370-528)

\* Rows of the issues table.
MaxRows == 2

FlVariants == {"audit.js:21", "audit.js:370"}

\* A row of public.issues: its two flags.
IssueRows == [description_missing : BOOLEAN, theme_missing : BOOLEAN]

IssueTables == SeqsUpTo(IssueRows, MaxRows)

\* WHERE i.description_missing = true OR i.theme_missing = true
FlaggedRows(table) ==
  SelectSeq(table, LAMBDA i : i.description_missing \/ i.theme_missing)

\* data.filter(issue => issue.description_missing)
missingDesc(data) == SelectSeq(data, LAMBDA i : i.description_missing)

\* data.filter(issue => issue.theme_missing)
missingTheme(data) == SelectSeq(data, LAMBDA i : i.theme_missing)

\* data.map(issue => `... Missing ...`): one line per row, saying what is
\* missing.
missingDetails(data) ==
  [k \in DOMAIN data |->
     IF data[k].description_missing /\ data[k].theme_missing
     THEN "description and theme"
     ELSE IF data[k].description_missing THEN "description" ELSE "theme"]

FlInit ==
  /\ au \in [ variant : FlVariants, table : IssueTables, pc : {"start"},
               data : {<<>>}, sent : {<<>>}, failed : {FALSE} ]
  /\ md = "off" /\ ai = "off" /\ db = "off" /\ rem = "off" /\ cv = "off"
  /\ ctl = "off" /\ dm = "off" /\ ep = "off"

\* The first copy acknowledges and sends "Analyzing roadmap data..."; the
\* last copy checks DATABASE_URL and the global pool and answers their
\* absence with an error message.
FlStart ==
  /\ au.pc = "start"
  /\ \E ok \in BOOLEAN :
       au' = IF ok THEN [au EXCEPT !.pc = "query"]
             ELSE IF au.variant = "audit.js:21"
             THEN [au EXCEPT !.pc = "escaped", !.failed = TRUE]
             ELSE [au EXCEPT !.pc = "done", !.failed = TRUE,
                             !.sent = Append(@, [kind |-> "error"])]
  /\ UNCHANGED <<md, ai, db, rem, cv, ctl, dm, ep>>

\* pool.query(query); without a flagged row the handler reports that and
\* returns.
FlQuery ==
  /\ au.pc = "query"
  /\ \E ok \in BOOLEAN :
       LET data == FlaggedRows(au.table)
       IN au' = IF ~ok THEN [au EXCEPT !.pc = "catch", !.failed = TRUE]
                ELSE IF Len(data) = 0
                THEN [au EXCEPT !.pc = "done",
                                !.sent = Append(@, [kind |-> "none_found"])]
                ELSE [au EXCEPT !.pc = "analyse", !.data = data]
  /\ UNCHANGED <<md, ai, db, rem, cv, ctl, dm, ep>>

\* The request to the language model and completion.choices[0].message
\* .content. The first copy calls openai.chat.completions.create; the last
\* copy hands the request object to getAIResponse, which answers with a
\* string, and reading choices[0] of a string throws a TypeError.
FlAnalyse ==
  /\ au.pc = "analyse"
  /\ \E ok \in BOOLEAN :
       au' = IF au.variant = "audit.js:370" THEN [au EXCEPT !.pc = "catch"]
             ELSE IF ok THEN [au EXCEPT !.pc = "summary"]
             ELSE [au EXCEPT !.pc = "catch", !.failed = TRUE]
  /\ UNCHANGED <<md, ai, db, rem, cv, ctl, dm, ep>>

\* say({ blocks: header, counts, analysis })
FlSummary ==
  /\ au.pc = "summary"
  /\ \E posted \in BOOLEAN :
       au' = IF posted
             THEN [au EXCEPT !.pc = "list",
                     !.sent = Append(@,
                        [ kind |-> "summary", total |-> Len(au.data),
                          descriptions |-> Len(missingDesc(au.data)),
                          themes |-> Len(missingTheme(au.data)) ])]
             ELSE [au EXCEPT !.pc = "catch", !.failed = TRUE]
  /\ UNCHANGED <<md, ai, db, rem, cv, ctl, dm, ep>>

\* say({ text: `*Detailed Issues Report*\n${missingDetails}` })
FlList ==
  /\ au.pc = "list"
  /\ \E posted \in BOOLEAN :
       au' = IF posted
             THEN [au EXCEPT !.pc = "done",
                     !.sent = Append(@, [ kind |-> "list",
                                          lines |-> missingDetails(au.data) ])]
             ELSE [au EXCEPT !.pc = "catch", !.failed = TRUE]
  /\ UNCHANGED <<md, ai, db, rem, cv, ctl, dm, ep>>

\* catch (error): respond "Error processing the audit: ${error.message}"
FlCatch ==
  /\ au.pc = "catch"
  /\ \E posted \in BOOLEAN :
       au' = IF posted
             THEN [au EXCEPT !.pc = "done",
                             !.sent = Append(@, [kind |-> "error"])]
             ELSE [au EXCEPT !.pc = "escaped", !.failed = TRUE]
  /\ UNCHANGED <<md, ai, db, rem, cv, ctl, dm, ep>>

FlNext == FlStart \/ FlQuery \/ FlAnalyse \/ FlSummary \/ FlList \/ FlCatch

SpecAuditIssues == FlInit /\ [][FlNext]_vars

\* C20: when the query has returned at least one flagged row and /audit has
\* ended (the database, the language model and the platform not failing),
\* it has posted a summary and then a list with one line per flagged row,
\* and the summary gives the number of flagged rows, of rows with
\* description_missing and of rows with theme_missing.
C20_SummaryAndList ==
  LET flagged == {k \in DOMAIN au.table :
                    au.table[k].description_missing
                      \/ au.table[k].theme_missing}
  IN (au.pc \in {"done", "escaped"} /\ flagged # {} /\ ~au.failed) =>
       /\ Len(au.sent) = 2
       /\ au.sent[1].kind = "summary" /\ au.sent[2].kind = "list"
       /\ au.sent[1].total = Cardinality(flagged)
       /\ au.sent[1].descriptions =
            Cardinality({k \in flagged : au.table[k].description_missing})
       /\ au.sent[1].themes =
            Cardinality({k \in flagged : au.table[k].theme_missing})
       /\ Len(au.sent[2].lines) = Cardinality(flagged)

\* ------------------------------------- getAIResponse and the health record

\* The call has returned, or has been left by an exception, for a prompt
\* that is not blank.
AiCompleted == ai.pc = "returned" /\ ~IsBlank(ai.prompt)

\* C21: the outcome of getAIResponse does not depend on
\* global.playlabApiStatus: whatever the record holds, and whether or not an
\* entry point created it, a completed call has returned a string, and that
\* string is the one the prompt, the tag and the behaviour of the language
\* model determine (the language model was asked whenever a client exists).
C21_ResultIgnoresRecord ==
  AiCompleted =>
    /\ ~ai.threw
    /\ ai.result # NoResult
    /\ ai.client = "ready" => (ai.trail # <<>> /\ ai.trail[1] = "stream_req")

\* -------------------------------------- properties of the worker controller

\* C22: at any time at most one worker thread that the controller spawned
\* is alive, whatever start, stop and restart requests, health checks and
\* worker error and exit events came before.
C22_AtMostOneAlive ==
  \A v, w \in RunningWorkers(ctl) : v = w

\* C29: once a stop request has made the worker exit with code 0, no worker
\* is started before a start or a restart request arrives.
C29_StoppedStaysStopped ==
  [][(ctl.stopped /\ ctl'.stopped) => Len(ctl'.workers) = Len(ctl.workers)]_vars

\* The step is a health check (GET).
IsHealthCheck == ctl'.requests = ctl.requests + 1 /\ ctl'.last = "GET"

\* The workers that a health check started in place of one whose heartbeat
\* was too old, and that have sent no heartbeat of their own yet.
FreshReplacements(c) ==
  {w \in RunningWorkers(c) :
     c.workers[w].via = "stale" /\ c.workers[w].lastBeat = NoHeartbeat}

\* C30: a health check that arrives before the first heartbeat of a worker
\* started by a stale-heartbeat restart leaves that worker running and
\* current.
C30_FreshWorkerSurvivesCheck ==
  [][IsHealthCheck =>
       \A w \in FreshReplacements(ctl) :
         w \in RunningWorkers(ctl') /\ (ctl.socketWorker = w => ctl'.socketWorker = w)]_vars

\* ------------------------------------------ properties of the message tracker

\* C25: a timestamp in processingMessages or messageTracker belongs to an
\* invocation that is still being handled, or its removal timer is armed: an
\* entry does not outlive the handling of its message, be it finished with a
\* reply or with an error.
C25_EntriesAreRemoved ==
  \A ts \in dm.tracker :
    \/ \E i \in Invocations : InFlight(dm.inv[i]) /\ dm.inv[i].ts = ts
    \/ ts \in dm.timers

\* ------------- commands/draft.js handleDraftCommand, commands/audit.js (third
\* copy) handleAuditCommand: the replies posted from delayed callbacks

\* The two commands whose handler posts its result from setTimeout.
DlCommands == {"draft", "audit"}

DlIdle ==
  [ pc |-> "idle", command |-> "none", hasText |-> FALSE, returned |-> FALSE,
    posts |-> 0, rejected |-> "none", unhandled |-> FALSE ]

DlInit ==
  /\ cv = [ started |-> 0, inv |-> [i \in Invocations |-> DlIdle] ]
  /\ md = "off" /\ ai = "off" /\ db = "off" /\ rem = "off" /\ au = "off"
  /\ ctl = "off" /\ dm = "off" /\ ep = "off"

\* The handler's promise settles: it returned, or it rejected with the
\* error of the call named in by.
DlReturn(r, by) == [r EXCEPT !.pc = "done", !.returned = TRUE, !.rejected = by]

\* A rejection inside a setTimeout callback, which nothing awaits.
DlUnhandled(r) == [r EXCEPT !.pc = "done", !.unhandled = TRUE]

\* await ack(), before the try block.
DlInvoke ==
  /\ cv.started < MaxOps
  /\ \E i \in Invocations, command \in DlCommands, hasText \in BOOLEAN,
        acked \in BOOLEAN :
       /\ cv.inv[i].pc \in {"idle", "done"}
       /\ LET r == [DlIdle EXCEPT !.command = command, !.hasText = hasText]
          IN cv' = [cv EXCEPT !.started = @ + 1,
                              !.inv[i] = IF acked THEN [r EXCEPT !.pc = "first"]
                                         ELSE DlReturn(r, "ack")]
  /\ UNCHANGED <<md, ai, db, rem, au, ctl, dm, ep>>

\* The first say(): the question for a command without text, after which
\* the handler returns, else the notice that work has begun.
DlFirstSay ==
  /\ \E i \in Invocations, posted \in BOOLEAN :
       LET r == cv.inv[i]
       IN /\ r.pc = "first"
          /\ cv' = [cv EXCEPT !.inv[i] =
                      IF ~posted THEN [r EXCEPT !.pc = "catch"]
                      ELSE IF ~r.hasText
                      THEN DlReturn([r EXCEPT !.posts = @ + 1], "none")
                      ELSE [r EXCEPT !.posts = @ + 1, !.pc = "llm"]]
  /\ UNCHANGED <<md, ai, db, rem, au, ctl, dm, ep>>

\* await getAIResponse(...) in the try block, then setTimeout(async ...):
\* the handler returns with the callback armed.
DlLlm ==
  /\ \E i \in Invocations, answered \in BOOLEAN :
       LET r == cv.inv[i]
       IN /\ r.pc = "llm"
          /\ cv' = [cv EXCEPT !.inv[i] =
                      IF answered THEN [r EXCEPT !.pc = "timer", !.returned = TRUE]
                      ELSE [r EXCEPT !.pc = "catch"]]
  /\ UNCHANGED <<md, ai, db, rem, au, ctl, dm, ep>>

\* The callback runs after the handler returned: /audit posts its result,
\* /draft posts the analysis and asks for the draft.
DlTimer ==
  /\ \E i \in Invocations, posted \in BOOLEAN :
       LET r == cv.inv[i]
       IN /\ r.pc = "timer"
          /\ cv' = [cv EXCEPT !.inv[i] =
                      IF ~posted THEN DlUnhandled(r)
                      ELSE IF r.command = "audit"
                      THEN [r EXCEPT !.posts = @ + 1, !.pc = "done"]
                      ELSE [r EXCEPT !.posts = @ + 1, !.pc = "llm2"]]
  /\ UNCHANGED <<md, ai, db, rem, au, ctl, dm, ep>>

\* await getAIResponse(draftPrompt, 'draft') inside the callback, then the
\* inner setTimeout.
DlLlm2 ==
  /\ \E i \in Invocations, answered \in BOOLEAN :
       LET r == cv.inv[i]
       IN /\ r.pc = "llm2"
          /\ cv' = [cv EXCEPT !.inv[i] =
                      IF answered THEN [r EXCEPT !.pc = "timer2"]
                      ELSE DlUnhandled(r)]
  /\ UNCHANGED <<md, ai, db, rem, au, ctl, dm, ep>>

\* The inner callback posts the draft.
DlTimer2 ==
  /\ \E i \in Invocations, posted \in BOOLEAN :
       LET r == cv.inv[i]
       IN /\ r.pc = "timer2"
          /\ cv' = [cv EXCEPT !.inv[i] =
                      IF posted THEN [r EXCEPT !.posts = @ + 1, !.pc = "done"]
                      ELSE DlUnhandled(r)]
  /\ UNCHANGED <<md, ai, db, rem, au, ctl, dm, ep>>

\* The catch block: await say(apology), itself outside any try.
DlCatch ==
  /\ \E i \in Invocations, posted \in BOOLEAN :
       LET r == cv.inv[i]
       IN /\ r.pc = "catch"
          /\ cv' = [cv EXCEPT !.inv[i] =
                      IF posted THEN DlReturn([r EXCEPT !.posts = @ + 1], "none")
                      ELSE DlReturn(r, "say")]
  /\ UNCHANGED <<md, ai, db, rem, au, ctl, dm, ep>>

DlNext ==
  \/ DlInvoke \/ DlFirstSay \/ DlLlm \/ DlTimer \/ DlLlm2 \/ DlTimer2 \/ DlCatch

SpecDelayed == DlInit /\ [][DlNext]_vars

\* C26: no failure of a posting call made for /draft or /audit, in the
\* handler or in a callback that runs after the handler returned, leaves
\* the handler: none rejects the handler's promise and none becomes an
\* unhandled rejection.
C26_PostFailuresCaught ==
  \A i \in Invocations :
    ~cv.inv[i].unhandled /\ cv.inv[i].rejected # "say"

\* ------------- parseReminderDateTime: the safeguard that moves a past time to
\* the next day, and scheduleReminder's second reading of the time

\* timeDiff < -3600000
HourMs == 3600000

MinuteMs == 60 * SecondMs

\* reminderDate.setDate(reminderDate.getDate() + 1), in a zone without a
\* change of clocks on that day.
DayMs == 24 * HourMs

\* Local time minus UTC, of the process that runs the bot.
ZoneOffsets == {0 - 5 * HourMs, 0, HourMs}

\* new Date() when the text is parsed and when the reminder is scheduled.
RollNow == 2 * DayMs

\* The requested time minus the current time.
RollOffsets ==
  {0 - DayMs - HourMs, 0 - 2 * HourMs, 0 - HourMs, 0 - MinuteMs, 0, HourMs}

\* A time string: the reading of a clock, with or without a trailing Z; one
\* that no Date can be made of; or no string (null).
NoTime == [given |-> FALSE, valid |-> FALSE, zulu |-> FALSE, clock |-> 0]

\* new Date(string).getTime(): "YYYY-MM-DD HH:MM" is read as local time, a
\* string that ends in Z as UTC.
DateParse(s, zone) == IF s.zulu THEN s.clock ELSE s.clock - zone

\* date.toISOString().split('.')[0].replace('T', ' '): the UTC reading of
\* the clock to the second, without the Z.
IsoWithoutZone(instant) ==
  [given |-> TRUE, valid |-> TRUE, zulu |-> FALSE,
   clock |-> instant - (instant % SecondMs)]

\* The test that decides whether the time is moved: reminderDate < now in
\* reminder.js, timeDiff < -3600000 in the other copy. Comparisons with an
\* Invalid Date are false.
IsPast(variant, s, now, zone) ==
  /\ s.given /\ s.valid
  /\ IF variant = "reminder.js" THEN DateParse(s, zone) < now
     ELSE DateParse(s, zone) - now < 0 - HourMs

\* A safeguard that hands back the time it was given.
AdjustPast_Never(variant, s, now, zone) == s

\* if (parsed.time) { ... parsed.time = reminderDate.toISOString()... }
AdjustPast(variant, s, now, zone) ==
  IF IsPast(variant, s, now, zone)
  THEN IsoWithoutZone(DateParse(s, zone) + DayMs)
  ELSE s

RlInit ==
  /\ \E variant \in {"reminder.js", "part_004"}, zone \in ZoneOffsets,
        d \in RollOffsets, zulu \in BOOLEAN, shape \in {"time", "garbage", "null"} :
       md = [ variant |-> variant, zone |-> zone, now |-> RollNow, pc |-> "parse",
              time |-> CASE shape = "null" -> NoTime
                         [] shape = "garbage" -> [NoTime EXCEPT !.given = TRUE]
                         [] OTHER -> [given |-> TRUE, valid |-> TRUE, zulu |-> zulu,
                                      clock |-> RollNow + d +
                                                (IF zulu THEN 0 ELSE zone)],
              returned |-> NoTime, reminderTime |-> 0, accepted |-> FALSE ]
  /\ ai = "off" /\ db = "off" /\ rem = "off" /\ cv = "off" /\ au = "off"
  /\ ctl = "off" /\ dm = "off" /\ ep = "off"

\* parseReminderDateTime returns the parsed object.
RlParse ==
  /\ md.pc = "parse"
  /\ md' = [md EXCEPT !.pc = "parsed",
                      !.returned = AdjustPast(md.variant, md.time, md.now, md.zone)]
  /\ UNCHANGED <<ai, db, rem, cv, au, ctl, dm, ep>>

\* if (time) scheduleReminder(...): reminderTime = new Date(time), and the
\* reminder is refused when timeUntilReminder <= 0.
RlSchedule ==
  /\ md.pc = "parsed"
  /\ md.returned.given
  /\ LET t == DateParse(md.returned, md.zone)
     IN md' = [md EXCEPT !.pc = "scheduled", !.reminderTime = t,
                         !.accepted = ~md.returned.valid \/ t - md.now > 0]
  /\ UNCHANGED <<ai, db, rem, cv, au, ctl, dm, ep>>

RlNext == RlParse \/ RlSchedule

SpecRoll == RlInit /\ [][RlNext]_vars

\* C24: when parseReminderDateTime finds the parsed instant in the past
\* (before now in reminder.js, more than an hour before now in the other
\* copy), the time it returns is read by scheduleReminder as the instant
\* exactly one day after the parsed instant; in every other case the time is
\* returned as it was parsed.
C24_RolledByOneDay ==
  /\ md.pc \in {"parsed", "scheduled"} =>
       (~IsPast(md.variant, md.time, md.now, md.zone) => md.returned = md.time)
  /\ md.pc = "scheduled" =>
       (IsPast(md.variant, md.time, md.now, md.zone) =>
          md.reminderTime = DateParse(md.time, md.zone) + DayMs)

\* --------------------------------- properties of the scheduled reminders

\* C23: a reminder that reached the scheduled state (an accepted platform
\* call, or an armed timer with its entry in activeReminders) has a valid
\* reminder time that is strictly later than the time of the call.
C23_ScheduledInFuture ==
  \A i \in DOMAIN rem.log :
    LET e == rem.log[i]
    IN (e.op = "schedule" /\ e.kind = "scheduled") => (~e.nan /\ e.delta > 0)

\* The reminders this process scheduled that are still held by the platform
\* or waiting on a timer.
OwnPending(r) == {id \in PendingIds(r) : id >= 1}

\* C28: activeReminders holds exactly the reminders that are still pending:
\* every reminder scheduled by this process has its entry from the moment
\* scheduling succeeded, and the entry is gone once the reminder has fired
\* or has been deleted.
C28_ActiveIsPending == rem.activeReminders = OwnPending(rem)

\* ------------------- commands/convo.js scheduleReminder: the in-process timer

\* The longest delay setTimeout takes, in milliseconds; a longer one, one
\* below 1 and NaN are replaced by 1.
TimeoutMaxMs == 2147483647

\* The clock of this part counts whole seconds. The longest delay in whole
\* seconds that setTimeout takes as it is.
TimeoutMaxS == TimeoutMaxMs \div SecondMs

\* The reminder time minus the time of the call, in seconds.
TmDelays == {0 - 1, 0, 1, 2, TimeoutMaxS, TimeoutMaxS + 1}

Channels == {"C1", "C2"}

Users == {"U1", "U2"}

\* Math.floor(Math.random() * 1000): the values that are followed.
MaxRandom == 2

RandomValues == 0 .. (MaxRandom - 1)

\* The millisecond within the current second at which a call is made.
Millis == {0, 1}

TmInit ==
  /\ db = [ now |-> 10, ticks |-> 0, ops |-> 0, nextTimer |-> 1, timers |-> {},
            activeReminders |-> {}, created |-> <<>>, posts |-> <<>> ]
  /\ md = "off" /\ ai = "off" /\ rem = "off" /\ cv = "off" /\ au = "off"
  /\ ctl = "off" /\ dm = "off" /\ ep = "off"

\* setTimeout(callback, timeUntilReminder): the time at which the callback
\* is due. A delay of 1 ms is due within the current second.
TimerDue(now, delay, nan) ==
  IF nan \/ delay > TimeoutMaxS THEN now ELSE now + delay

\* An identifier that no other reminder has: the number of the call.
ReminderId_Serial(now, ms, random, serial) == <<serial, 0, 0>>

\* `reminder_${Date.now()}_${Math.floor(Math.random() * 1000)}`
ReminderId(now, ms, random, serial) == <<now, ms, random>>

\* activeReminders[reminderId] = {...}: an entry under that key is replaced.
StoreReminder(active, id, timerId) ==
  {e \in active : e.id # id} \cup {[id |-> id, timerId |-> timerId]}

\* scheduleReminder({userId, text, time, channel}, client): an error for a
\* time that is not after now, else a timer and an entry in activeReminders.
\* timerId is the handle setTimeout returns.
TmSchedule ==
  /\ db.ops < MaxRemOps
  /\ \E delay \in TmDelays, nan \in BOOLEAN, channel \in Channels, userId \in Users,
        ms \in Millis, random \in RandomValues :
       /\ nan => delay = 0
       /\ db' = IF ~nan /\ delay <= 0
                THEN [db EXCEPT !.ops = @ + 1]
                ELSE LET id == ReminderId(db.now, ms, random, db.nextTimer)
                     IN [db EXCEPT
                           !.ops = @ + 1,
                           !.nextTimer = @ + 1,
                           !.timers = @ \cup
                              {[ timerId |-> db.nextTimer, id |-> id,
                                 channel |-> channel, userId |-> userId,
                                 dueAt |-> TimerDue(db.now, delay, nan) ]},
                           !.activeReminders =
                              StoreReminder(@, id, db.nextTimer),
                           !.created = Append(@, [ at |-> db.now, valid |-> ~nan,
                                                   reminderTime |-> db.now + delay,
                                                   channel |-> channel,
                                                   userId |-> userId ])]
  /\ UNCHANGED <<md, ai, rem, cv, au, ctl, dm, ep>>

\* The callback runs once: chat.postMessage to the channel of the reminder
\* with the mention of its user, and delete activeReminders[reminderId] when
\* that worked.
TmFire ==
  /\ \E t \in db.timers, posted \in BOOLEAN :
       /\ t.dueAt <= db.now
       /\ db' = [db EXCEPT
                   !.timers = @ \ {t},
                   !.activeReminders = IF posted THEN {e \in @ : e.id # t.id}
                                       ELSE @,
                   !.posts = IF posted
                             THEN Append(@, [ timerId |-> t.timerId, at |-> db.now,
                                              channel |-> t.channel,
                                              mention |-> t.userId ])
                             ELSE @]
  /\ UNCHANGED <<md, ai, rem, cv, au, ctl, dm, ep>>

\* Time passes: a second, or up to the time the next timer is due.
TmTick ==
  /\ db.ticks < MaxRemTicks
  /\ \E to \in {db.now + 1} \cup {t.dueAt : t \in db.timers} :
       /\ to > db.now
       /\ \A t \in db.timers : t.dueAt > db.now
       /\ db' = [db EXCEPT !.now = to, !.ticks = @ + 1]
  /\ UNCHANGED <<md, ai, rem, cv, au, ctl, dm, ep>>

TmNext == TmSchedule \/ TmFire \/ TmTick

SpecTimer == TmInit /\ [][TmNext]_vars

\* C27: a reminder of the in-process scheduler is posted at most once, after
\* it was scheduled and not before its reminder time, to the channel it was
\* created in and with the mention of the user who asked for it.
C27_FiresOnceWhenDue ==
  \A i \in DOMAIN db.posts :
    LET p == db.posts[i]
        c == db.created[p.timerId]
    IN /\ \A j \in DOMAIN db.posts : db.posts[j].timerId = p.timerId => j = i
       /\ p.at >= c.at
       /\ c.valid /\ p.at >= c.reminderTime
       /\ p.channel = c.channel /\ p.mention = c.userId

\* C35: for a prompt that is not blank, and with the health record in place,
\* getAIResponse returns a string that is not empty, whether the text is
\* that of the stream, of the non-streaming retry, or the fallback sentence.
C35_NonEmptyResult ==
  (AiCompleted /\ ai.status.defined) =>
    /\ ~ai.threw
    /\ ai.result # NoResult
    /\ ai.result # <<>>

\* C33: a direct message or mention that was handled, whose answer was
\* obtained and whose last posting call was accepted, got its answer exactly
\* once: as an update of the placeholder when the placeholder was posted and
\* the update went through, else as one new message; and no message gets
\* its answer twice.
C33_AnsweredOnce ==
  \A i \in Invocations :
    LET r == dm.inv[i]
    IN /\ r.replies <= 1
       /\ (r.pc = "done" /\ ~r.skipped /\ r.cause \notin {"llm", "post"}) =>
            /\ r.replies = 1
            /\ r.answer = "update" <=> (r.thinking /\ ~r.updateFailed)
            /\ r.answer = "post" <=> (~r.thinking \/ r.updateFailed)

\* ------------------------------------------- app.message: which messages
\* the listener answers

\* The copies of the message listener.
FtHandlers == {"part_002", "app.js", "part_003", "app-fixed.js"}

\* message.text: absent, without a mention, with the mention of the bot, or
\* with the mention of somebody else.
FtTexts == {"none", "plain", "mentions_bot", "mentions_other"}

\* The message events the platform sends: a person's message or the edit of
\* one (subtype message_changed, no text at the top level), and the message
\* of an integration, of this bot or of another, which carries bot_id and
\* may carry the subtype bot_message.
FtMessages ==
  { m \in [ author : {"user", "self", "other_bot"},
            subtype : {"none", "bot_message", "message_changed"},
            bot_id : BOOLEAN, channel_type : {"im", "channel"},
            text : FtTexts ] :
      /\ m.bot_id <=> m.author # "user"
      /\ m.subtype = "bot_message" => m.author # "user"
      /\ m.subtype = "message_changed" => (m.author = "user" /\ m.text = "none") }

FtInit ==
  /\ ctl \in [ handler : FtHandlers, botIdKnown : BOOLEAN, message : FtMessages,
               pc : {"received"}, replied : {FALSE} ]
  /\ md = "off" /\ ai = "off" /\ db = "off" /\ rem = "off" /\ cv = "off"
  /\ au = "off" /\ dm = "off" /\ ep = "off"

\* part_002: message.text && /<@U[A-Z0-9]+>/.test(message.text); the other
\* copies: message.text.includes(`<@${app.botId}>`), which finds nothing
\* while app.botId is undefined; app-fixed.js has no such test.
isBotMentioned(handler, m, botIdKnown) ==
  CASE handler = "part_002" -> m.text \in {"mentions_bot", "mentions_other"}
    [] handler = "app-fixed.js" -> FALSE
    [] OTHER -> m.text = "mentions_bot" /\ botIdKnown

\* The early returns of the listener.
FtSkipped(handler, m) ==
  CASE handler = "part_002" ->
         m.subtype \in {"bot_message", "message_changed"} \/ m.bot_id
    [] handler = "app-fixed.js" -> m.channel_type # "im"
    [] OTHER -> m.subtype = "bot_message"

\* The listener goes on to send something: the answer, or the apology of its
\* catch block. The handlers that part_003 calls return without a word for
\* a message without text.
FtReplies(handler, m, botIdKnown) ==
  /\ ~FtSkipped(handler, m)
  /\ m.channel_type = "im" \/ isBotMentioned(handler, m, botIdKnown)
  /\ handler = "part_003" => m.text # "none"

\* The framework drops the messages of the bot itself before any listener.
FtIgnoreSelf ==
  /\ ctl.pc = "received"
  /\ ctl.message.author = "self"
  /\ ctl' = [ctl EXCEPT !.pc = "dropped"]
  /\ UNCHANGED <<md, ai, db, rem, cv, au, dm, ep>>

\* The listener runs.
FtMessage ==
  /\ ctl.pc = "received"
  /\ ctl.message.author # "self"
  /\ ctl' = [ctl EXCEPT !.pc = "handled",
                        !.replied = FtReplies(ctl.handler, ctl.message,
                                              ctl.botIdKnown)]
  /\ UNCHANGED <<md, ai, db, rem, cv, au, dm, ep>>

FtNext == FtIgnoreSelf \/ FtMessage

SpecFilter == FtInit /\ [][FtNext]_vars

\* C34: the listener replies only to a direct message or to a message that
\* mentions the bot itself, and never to a message that a bot wrote.
C34_RepliesOnlyWhenAddressed ==
  ctl.replied =>
    /\ ctl.message.channel_type = "im" \/ ctl.message.text = "mentions_bot"
    /\ ctl.message.author = "user"

\* ------------------------------------- scripts/keepalive.js pingSocketWorker

\* const MAX_RETRIES = 3
MAX_RETRIES == 3

\* The runs of pingSocketWorker that can be under way at once: the interval
\* starts a run every minute whether or not the last one is over.
Runs == {"r1", "r2"}

KaIdle ==
  [ pc |-> "idle", retries |-> 0, success |-> FALSE, attempts |-> 0,
    afterSuccess |-> 0, posts |-> 0 ]

KaInit ==
  /\ ep = [ started |-> 0, run |-> [r \in Runs |-> KaIdle] ]
  /\ md = "off" /\ ai = "off" /\ db = "off" /\ rem = "off" /\ cv = "off"
  /\ au = "off" /\ ctl = "off" /\ dm = "off"

\* A loop that goes on until an attempt succeeds.
WhileCondition_NoLimit(k) == ~k.success

\* while (!success && retries < MAX_RETRIES)
WhileCondition(k) == ~k.success /\ k.retries < MAX_RETRIES

\* The top of the loop: another attempt, or the end of the run.
KaLoop(k) ==
  IF WhileCondition(k)
  THEN [k EXCEPT !.pc = "get", !.attempts = @ + 1,
                 !.afterSuccess = IF k.success THEN @ + 1 ELSE @]
  ELSE [k EXCEPT !.pc = "done"]

\* catch (error): retries++, and the delay before the next attempt unless
\* that was the last one.
KaCatch(k) ==
  LET c == [k EXCEPT !.retries = @ + 1]
  IN IF c.retries < MAX_RETRIES THEN [c EXCEPT !.pc = "delay"] ELSE KaLoop(c)

\* pingSocketWorker() is called, at start-up or by the interval.
KaStart ==
  /\ ep.started < MaxOps
  /\ \E r \in Runs :
       /\ ep.run[r].pc \in {"idle", "done"}
       /\ ep' = [ep EXCEPT !.started = @ + 1, !.run[r] = KaLoop(KaIdle)]
  /\ UNCHANGED <<md, ai, db, rem, cv, au, ctl, dm>>

\* axios.get(.../socket/status) settles: with workerRunning true the attempt
\* has succeeded, with false the start command is sent next.
KaGet ==
  /\ \E r \in Runs, answered \in BOOLEAN, workerRunning \in BOOLEAN :
       LET k == ep.run[r]
       IN /\ k.pc = "get"
          /\ ep' = [ep EXCEPT !.run[r] =
                      IF ~answered THEN KaCatch(k)
                      ELSE IF workerRunning THEN KaLoop([k EXCEPT !.success = TRUE])
                      ELSE [k EXCEPT !.pc = "post"]]
  /\ UNCHANGED <<md, ai, db, rem, cv, au, ctl, dm>>

\* axios.post(.../socket/control, {action: 'start'}) settles.
KaPost ==
  /\ \E r \in Runs, answered \in BOOLEAN :
       LET k == ep.run[r]
       IN /\ k.pc = "post"
          /\ ep' = [ep EXCEPT !.run[r] =
                      IF answered
                      THEN KaLoop([k EXCEPT !.success = TRUE, !.posts = @ + 1])
                      ELSE KaCatch(k)]
  /\ UNCHANGED <<md, ai, db, rem, cv, au, ctl, dm>>

\* The retry delay is over.
KaDelay ==
  /\ \E r \in Runs :
       /\ ep.run[r].pc = "delay"
       /\ ep' = [ep EXCEPT !.run[r] = KaLoop(ep.run[r])]
  /\ UNCHANGED <<md, ai, db, rem, cv, au, ctl, dm>>

KaNext == KaStart \/ KaGet \/ KaPost \/ KaDelay

SpecKeepalive == KaInit /\ [][KaNext]_vars

\* Every request that was sent settles and every retry delay ends.
SpecKeepaliveFair ==
  SpecKeepalive /\ WF_vars(KaGet) /\ WF_vars(KaPost) /\ WF_vars(KaDelay)

DatabaseExports ==
  {"testConnection", "getRoadmapData", "listRoadmapProjects", "updateRoadmapData"}

PlInit ==
  /\ \E entry \in HttpEndpoints, url \in BOOLEAN, loads \in BOOLEAN :
       au = [ entry |-> entry, DATABASE_URL |-> url, loads |-> loads,
              pc |-> "require", dbManager |-> "fallback", vercelPool |-> Undefined,
              requests |-> 0, results |-> <<>> ]
  /\ md = "off" /\ ai = "off" /\ db = "off" /\ rem = "off" /\ cv = "off"
  /\ ctl = "off" /\ dm = "off" /\ ep = "off"

\* require('../utils/database').<name>: the exported value, undefined for a
\* name the module does not export. The module creates its manager only
\* with DATABASE_URL set.
RequireDatabase(name, url) ==
  IF name \notin DatabaseExports THEN Undefined
  ELSE IF name = "dbManager" /\ ~url THEN Null
  ELSE name

\* dbManager && dbManager.pool: the fallback object has pool: null.
HasPool(dbManager) == dbManager \notin {Undefined, Null, "fallback"}

\* try { dbManager = require('../utils/database').dbManager } catch { ... }:
\* the fallback object stays when the module cannot be loaded.
PlRequire ==
  /\ au.pc = "require"
  /\ au' = [au EXCEPT !.pc = "setPool",
                      !.dbManager = IF au.loads
                                    THEN RequireDatabase("dbManager", au.DATABASE_URL)
                                    ELSE @]
  /\ UNCHANGED <<md, ai, db, rem, cv, ctl, dm, ep>>

\* if (dbManager && dbManager.pool) global.vercelPool = dbManager.pool
PlSetPool ==
  /\ au.pc = "setPool"
  /\ au' = [au EXCEPT !.pc = "ready",
                      !.vercelPool = IF HasPool(au.dbManager) THEN "pool" ELSE @]
  /\ UNCHANGED <<md, ai, db, rem, cv, ctl, dm, ep>>

\* /audit arrives: await respond("Analyzing roadmap data..."), before the
\* try block.
PlCommand ==
  /\ au.pc = "ready"
  /\ au.requests < MaxRequests
  /\ \E accepted \in BOOLEAN :
       au' = IF accepted THEN [au EXCEPT !.pc = "env", !.requests = @ + 1]
             ELSE [au EXCEPT !.requests = @ + 1,
                             !.results = Append(@, [outcome |-> "rejected",
                                                    told |-> FALSE])]
  /\ UNCHANGED <<md, ai, db, rem, cv, ctl, dm, ep>>

\* if (!process.env.DATABASE_URL) { respond(... not configured); return }
PlEnv ==
  /\ au.pc = "env"
  /\ \E told \in BOOLEAN :
       au' = IF au.DATABASE_URL THEN [au EXCEPT !.pc = "getPool"]
             ELSE [au EXCEPT !.pc = "ready",
                             !.results = Append(@, [outcome |-> "not_configured",
                                                    told |-> told])]
  /\ UNCHANGED <<md, ai, db, rem, cv, ctl, dm, ep>>

\* getPool(): global.vercelPool, or the error 'Database connection not
\* available', which the handler reports to the user.
PlGetPool ==
  /\ au.pc = "getPool"
  /\ \E told \in BOOLEAN :
       au' = [au EXCEPT !.pc = IF au.vercelPool # Undefined THEN "query" ELSE "ready",
                        !.results = Append(@, IF au.vercelPool # Undefined
                                              THEN [outcome |-> "pool", told |-> FALSE]
                                              ELSE [outcome |-> "not_available",
                                                    told |-> told])]
  /\ UNCHANGED <<md, ai, db, rem, cv, ctl, dm, ep>>

PlNext == PlRequire \/ PlSetPool \/ PlCommand \/ PlEnv \/ PlGetPool

SpecPool == PlInit /\ [][PlNext]_vars

\* C38: once the endpoint has initialised with DATABASE_URL set and the
\* database module loaded, global.vercelPool holds a pool, and getPool hands
\* it to the /audit handler instead of raising 'Database connection not
\* available'.
C38_PoolAvailable ==
  (au.pc \notin {"require", "setPool"} /\ au.DATABASE_URL /\ au.loads) =>
    /\ au.vercelPool = "pool"
    /\ \A i \in DOMAIN au.results : au.results[i].outcome # "not_available"

\* ----------------------------- api/socket-worker.js startSocketModeApp and
\* its process-wide error listeners

\* The calls of startSocketModeApp that are followed.
MaxStarts == 5

\* The script has been loaded and startSocketModeApp() was called once.
\* apps are the bot instances whose app.start() resolved, heartbeats the
\* setInterval timers, listeners the registrations of each of the two
\* process events, pending the armed restart timers.
WkInit ==
  /\ cv = [ starting |-> 1, pending |-> 0, apps |-> 0, heartbeats |-> 0,
            listeners |-> 0, calls |-> 1, errors |-> 0, lastScheduled |-> 0,
            lastEvent |-> "none", crashed |-> FALSE ]
  /\ md = "off" /\ ai = "off" /\ db = "off" /\ rem = "off" /\ au = "off"
  /\ ctl = "off" /\ dm = "off" /\ ep = "off"

\* setTimeout(startSocketModeApp, 5000) fires: a new App is built and
\* app.start() is awaited.
WkRestart ==
  /\ ~cv.crashed
  /\ cv.pending > 0
  /\ cv.calls < MaxStarts
  /\ cv' = [cv EXCEPT !.pending = @ - 1, !.starting = @ + 1, !.calls = @ + 1]
  /\ UNCHANGED <<md, ai, db, rem, au, ctl, dm, ep>>

\* await app.start() resolves: the heartbeat interval is set and the two
\* process listeners are added. It rejects: the catch block arms a restart.
WkStarted ==
  /\ ~cv.crashed
  /\ cv.starting > 0
  /\ \E started \in BOOLEAN :
       cv' = IF started
             THEN [cv EXCEPT !.starting = @ - 1, !.apps = @ + 1,
                             !.heartbeats = @ + 1, !.listeners = @ + 1]
             ELSE [cv EXCEPT !.starting = @ - 1, !.pending = @ + 1]
  /\ UNCHANGED <<md, ai, db, rem, au, ctl, dm, ep>>

\* An uncaught exception or an unhandled rejection: every listener added so
\* far for that event runs and arms a restart; with no listener the thread
\* ends.
WkError ==
  /\ ~cv.crashed
  /\ cv.errors < MaxOps
  /\ \E event \in {"uncaughtException", "unhandledRejection"} :
       cv' = IF cv.listeners = 0
             THEN [cv EXCEPT !.crashed = TRUE, !.errors = @ + 1, !.apps = 0,
                             !.heartbeats = 0, !.pending = 0, !.starting = 0,
                             !.lastEvent = event]
             ELSE [cv EXCEPT !.errors = @ + 1, !.pending = @ + cv.listeners,
                             !.lastScheduled = cv.listeners,
                             !.lastEvent = event]
  /\ UNCHANGED <<md, ai, db, rem, au, ctl, dm, ep>>

WkNext == WkRestart \/ WkStarted \/ WkError

SpecWorker == WkInit /\ [][WkNext]_vars

\* C31: an uncaught exception or unhandled rejection that the worker
\* handles arms exactly one restart, and at no time is more than one bot
\* instance or more than one heartbeat timer active.
C31_OneRestartOneInstance ==
  /\ (cv.errors > 0 /\ ~cv.crashed) => cv.lastScheduled = 1
  /\ cv.apps <= 1
  /\ cv.heartbeats <= 1

\* C32: every /reminder command, be its text empty, a new reminder, "list"
\* or "delete <id>", ends with something the user can see, as long as the
\* platform takes the handler's messages.
C32_AlwaysAnswers ==
  \A i \in DOMAIN rem.log :
    LET e == rem.log[i]
    IN (e.via = "command" /\ ~e.platformFailed) => e.kind # "no_response"

\* C37: every reminder whose timer is still armed has the entry of
\* activeReminders under its identifier: scheduling another reminder does
\* not replace it, and the firing of another reminder does not remove it.
C37_PendingKeepTheirEntry ==
  \A t \in db.timers :
    [id |-> t.id, timerId |-> t.timerId] \in db.activeReminders

====
